---- MODULE Spec2Model ----
(***************************************************************************)
(* Model of the load-execution engine of `loaded`: the runner (cmd/run.rs), *)
(* the workers (worker.rs), the connections and their lifecycle hooks      *)
(* (connection.rs, connection/*.rs).                                       *)
(*                                                                         *)
(* Granularity: one action per stretch of code between two suspension      *)
(* points of a connection task.  Tasks of one worker are cooperatively     *)
(* scheduled, so such a stretch is atomic with respect to its siblings;    *)
(* the state shared between threads (the global run flag, the              *)
(* WorkerStats behind its RwLock) is read or written once per stretch.     *)
(* The atomic run flag is modelled as sequentially consistent.             *)
(***************************************************************************)
EXTENDS Integers, Sequences, FiniteSets, TLC

\* ------------------------------------------------------------------ bounds
Threads == 2            \* args.threads
Connections == 3        \* args.connections (>= Threads, main.rs)
MaxNumRequests == 2     \* args.num_requests is MaxNumRequests - 1 or MaxNumRequests
MaxIssued == 1          \* requests per connection in a duration run
BodyLen == 2            \* length of the Simple engine's body

None == "None"

\* A response is <<status, length of its body>>; a stub server is the set of
\* responses it may give: one that answers 200 or 404, one that always
\* answers 204.
Stubs == {{<<200, 3>>, <<404, 1>>}, {<<204, 0>>}}

Responses == UNION Stubs

\* ------------------------------------------------------------- util.rs
\* the remainder handed to the last items instead of the first
DivvyLargerLast(to_divvy, num_items) ==
    [i \in 0..(num_items - 1) |->
        IF i >= num_items - (to_divvy % num_items)
        THEN (to_divvy \div num_items) + 1
        ELSE to_divvy \div num_items]

\* util.rs 70-81
Divvy(to_divvy, num_items) ==
    [i \in 0..(num_items - 1) |->
        IF i < to_divvy % num_items
        THEN (to_divvy \div num_items) + 1
        ELSE to_divvy \div num_items]

\* ------------------------------------------------------------ topology
Workers == 0..(Threads - 1)

\* run.rs: util::divvy(args.connections, args.threads)
NumConnections == Divvy(Connections, Threads)

\* A connection is <<worker id, index in its worker>>.
Conns == {c \in Workers \X (0..(Connections - 1)) : c[2] < NumConnections[c[1]]}

ConnsOf(w) == {c \in Conns : c[1] = w}

RECURSIVE SumOver(_, _)
SumOver(S, f) ==
    IF S = {} THEN 0
    ELSE LET x == CHOOSE y \in S : TRUE IN f[x] + SumOver(S \ {x}, f)

VARIABLES
    cfg,            \* the RunCmd (mode, num_requests, rate_limit) and the stub server
    run_flag,       \* the global Arc<AtomicBool>
    pc,             \* position of every connection task
    local_run,      \* Rc<AtomicBool> of every connection
    num_requests,   \* RequestCompletionCondition.num_requests
    collector,      \* StatsCollector: req_size, start, time_to_first_byte
    arrived,        \* per worker: tasks that called setup_barrier.wait()
    timer,          \* per worker: the sleep task of DurationCompletionCondition
    stats,          \* per worker: the shared WorkerStats
    wres,           \* per worker: result of Worker::run / state of its thread
    run_infos,      \* per worker: WorkerInfo.run_infos
    rpc,            \* position of the runner (main thread)
    previous_stats, \* wait_for_completion: last sample per worker
    totals,         \* wait_for_completion: total_reqs, total_bytes_*
    summary,        \* what run() hands to SummaryStats::new
    log,            \* history: lifecycle calls of a connection's current iteration
    issued,         \* history: requests started per connection
    handled,        \* history: per worker, responses given to after_response
    issued_after_clear, \* history: requests a running connection started after the flag was cleared
    tokens,         \* history: tokens the shared RateLimiter has granted
    timers_started, \* history: per worker, sleep tasks spawned by DurationCompletionCondition
    engine_calls,   \* history: per connection, calls of engine.setup and engine.cleanup
    runtime,        \* get_total_runtime: its argument, Instant::now() and its result
    divvied,        \* util::divvy: its arguments and the values it yielded
    uri_provider,   \* a UriProvider, the number of calls to next() and the last Uri
    timed,          \* a duration run of one worker against a clock
    traffic,        \* a TrafficStateMachine and the states next() returned
    stream,         \* a PerpetualByteStream and the bytes of the frames it gave
    supplier,       \* a PerpetualByteStreamSupplier and what its calls returned
    launch,         \* a run from main to exit: validation, URL, ports, connects
    conditions,     \* the completion conditions handed to workers and connections
    delta,          \* stats.rs changed: one counter sampled at two ticks
    sampled,        \* one worker's instant_stats behind its RwLock
    s3              \* engine/s3.rs: an S3Engine and the requests it built

vars == <<cfg, run_flag, pc, local_run, num_requests, collector, arrived,
          timer, stats, wres, run_infos, rpc, previous_stats, totals, summary,
          log, issued, handled, issued_after_clear, tokens, timers_started,
          engine_calls,
          runtime, divvied, uri_provider, timed,
          traffic,
          stream,
          supplier,
          launch,
          conditions,
          delta,
          sampled,
          s3>>

\* the variables of the components that are checked on their own
fvars == <<runtime, divvied, uri_provider, timed, traffic, stream, supplier,
          launch, conditions, delta, sampled, s3>>

\* ---------------------------------------------------- completion conditions
\* run.rs 46-58: one condition per worker
WorkerCondition(w) ==
    IF cfg.mode = "NumRequests"
    THEN [kind |-> "NumRequests", n |-> Divvy(cfg.num_requests, Threads)[w]]
    ELSE [kind |-> "Duration", n |-> 0]

\* worker.rs 60-73: one condition per connection
ConnCondition(c) ==
    LET cond == WorkerCondition(c[1]) IN
    IF cond.kind = "NumRequests"
    THEN [kind |-> "NumRequests", n |-> Divvy(cond.n, NumConnections[c[1]])[c[2]]]
    ELSE cond

Quota(c) == ConnCondition(c).n

\* a duration hook installed on every connection
CreateLifecycleListenersAll(c) ==
    <<"Stats">>
    \o (IF cfg.rate_limit THEN <<"RateLimit">> ELSE <<>>)
    \o (IF ConnCondition(c).kind = "NumRequests" THEN <<"RequestsCompletion">>
        ELSE <<"DurationCompletion">>)

\* a chain in which the rate limiter is pushed after the completion hook
CreateLifecycleListenersLimiterLast(c) ==
    <<"Stats">>
    \o (IF ConnCondition(c).kind = "NumRequests" THEN <<"RequestsCompletion">>
        ELSE IF c[2] = 0 THEN <<"DurationCompletion">> ELSE <<>>)
    \o (IF cfg.rate_limit THEN <<"RateLimit">> ELSE <<>>)

\* worker.rs 129-164
CreateLifecycleListeners(c) ==
    <<"Stats">>
    \o (IF cfg.rate_limit THEN <<"RateLimit">> ELSE <<>>)
    \o (IF ConnCondition(c).kind = "NumRequests" THEN <<"RequestsCompletion">>
        ELSE IF c[2] = 0 THEN <<"DurationCompletion">> ELSE <<>>)

Chain(c) == CreateLifecycleListeners(c)

Has(c, hook) == \E k \in 1..Len(Chain(c)) : Chain(c)[k] = hook

\* a barrier one short of the worker's connection count
BarrierSizeShort(w) == NumConnections[w] - 1

\* worker.rs 58: Barrier::new(num_connections)
BarrierSize(w) == NumConnections[w]

\* a loop that looks at the global flag only
ShouldRunGlobalOnly(c) == run_flag

\* connection.rs 142-144
ShouldRun(c) == run_flag /\ local_run[c]

\* success taken to mean 200 only
IsSuccessOnly200(status) == status = 200

\* StatusCode::is_success (any 2xx), as used at connection/stats.rs 44
IsSuccess(status) == 200 <= status /\ status < 300

\* ------------------------------------------------------------ the hooks
\* a quota check that lets one request too many through
RequestCompletionReturnsLate(n, q) == (n + 1) # (q + 2)

\* connection/completion.rs 31-39: the value should_issue_request returns
\* when the counter stands at n and the quota is q
RequestCompletionReturns(n, q) == (n + 1) # (q + 1)

\* a flag that all connections of the worker share
ClearLocalRunOfWorker(lr, c) ==
    [d \in Conns |-> IF d[1] = c[1] THEN FALSE ELSE lr[d]]

\* connection/completion.rs 34: self.local_run.store(false), the Rc made
\* for this connection alone at worker.rs 86
ClearLocalRun(lr, c) == [lr EXCEPT ![c] = FALSE]

\* a rate-limit hook that lets the request through whatever the limiter says
HookShouldIssueUnlimited(c, k, grant) ==
    CASE Chain(c)[k] = "RequestsCompletion" ->
            RequestCompletionReturns(num_requests[c], Quota(c))
      [] OTHER -> TRUE

\* connection/lifecycle.rs 30-32 (default), rate_limit.rs 31-38,
\* completion.rs 31-39: what hook k of c answers; grant is limiter.check()
HookShouldIssue(c, k, grant) ==
    CASE Chain(c)[k] = "RateLimit" -> grant
      [] Chain(c)[k] = "RequestsCompletion" ->
            RequestCompletionReturns(num_requests[c], Quota(c))
      [] OTHER -> TRUE

\* connection.rs 85-89: index of the first hook that answers false, 0 if none
FirstFalse(c, grant) ==
    LET F == {k \in 1..Len(Chain(c)) : ~HookShouldIssue(c, k, grant)} IN
    IF F = {} THEN 0 ELSE CHOOSE k \in F : \A j \in F : k <= j

\* every hook is asked, whatever the earlier ones answered
ConsultedAll(c, grant) == 1..Len(Chain(c))

\* connection.rs 85-89: the hooks whose should_issue_request is called
Consulted(c, grant) ==
    IF FirstFalse(c, grant) = 0 THEN 1..Len(Chain(c)) ELSE 1..FirstFalse(c, grant)

\* hooks called last to first
HookCallsReversed(c, name) ==
    [k \in 1..Len(Chain(c)) |-> <<name, Len(Chain(c)) - k + 1, TRUE>>]

\* connection.rs 59-61, 98-100, 105-107, 111-113: `for l in &mut
\* self.lifecycle_listeners`; a lifecycle call is <<name, position in the
\* chain (0: engine or transport), returned value>>
HookCalls(c, name) == [k \in 1..Len(Chain(c)) |-> <<name, k, TRUE>>]

\* a quota hook that counts every iteration
CountedAlways(c, grant) == Has(c, "RequestsCompletion")

\* connection.rs 85-89 with completion.rs 32: the iteration reaches the
\* request-count hook, whose counter goes up by one
Counted(c, grant) ==
    \E k \in Consulted(c, grant) : Chain(c)[k] = "RequestsCompletion"

ShouldIssueCalls(c, grant) ==
    [k \in Consulted(c, grant) |->
        <<"should_issue_request", k, k # FirstFalse(c, grant)>>]

EmptyMap == [k \in {} |-> 0]

\* HashMap entry(k).and_modify(|v| *v += n).or_insert(n)
MapAdd(m, k, n) ==
    IF k \in DOMAIN m THEN [m EXCEPT ![k] = @ + n] ELSE m @@ (k :> n)

\* a collector that counts every response as issued, whatever its status
AfterResponseCountsAll(st, col, r) ==
    IF 200 <= r[1] /\ r[1] < 300
    THEN [st EXCEPT !.rtt_latency_hist = @ + 1,
                    !.ttfb_latency_hist = @ + 1,
                    !.requests_issued = @ + 1,
                    !.bytes_written = @ + col.req_size,
                    !.bytes_read = @ + r[2]]
    ELSE [st EXCEPT !.requests_issued = @ + 1,
                    !.errors = MapAdd(@, r[1], 1)]

\* connection/stats.rs 42-68: StatsCollector::after_response on a WorkerStats
AfterResponse(st, col, r) ==
    IF IsSuccess(r[1])
    THEN [st EXCEPT !.rtt_latency_hist = @ + 1,
                    !.ttfb_latency_hist = @ + 1,
                    !.requests_issued = @ + 1,
                    !.bytes_written = @ + col.req_size,
                    !.bytes_read = @ + r[2]]
    ELSE [st EXCEPT !.errors = MapAdd(@, r[1], 1)]

\* ---------------------------------------------------------------- Init
Configs ==
    {[mode |-> "NumRequests", num_requests |-> n, rate_limit |-> b, stub |-> s] :
        n \in (MaxNumRequests - 1)..MaxNumRequests, b \in BOOLEAN, s \in Stubs}
    \cup {[mode |-> "Duration", num_requests |-> 0, rate_limit |-> b, stub |-> s] :
        b \in BOOLEAN, s \in Stubs}

InstantStatsDefault == [requests_issued |-> 0, bytes_written |-> 0, bytes_read |-> 0]

WorkerStatsDefault ==
    [requests_issued |-> 0, bytes_written |-> 0, bytes_read |-> 0,
     errors |-> EmptyMap, rtt_latency_hist |-> 0, ttfb_latency_hist |-> 0]

Init ==
    /\ cfg \in Configs
    /\ run_flag = TRUE
    /\ pc = [c \in Conns |-> "spawned"]
    /\ local_run = [c \in Conns |-> TRUE]
    /\ num_requests = [c \in Conns |-> 0]
    /\ collector = [c \in Conns |-> [req_size |-> 0, start |-> FALSE,
                                     time_to_first_byte |-> FALSE]]
    /\ arrived = [w \in Workers |-> 0]
    /\ timer = [w \in Workers |-> "none"]
    /\ stats = [w \in Workers |-> WorkerStatsDefault]
    /\ wres = [w \in Workers |-> "running"]
    /\ run_infos = [w \in Workers |-> <<>>]
    /\ rpc = "check"
    /\ previous_stats = [w \in Workers |-> InstantStatsDefault]
    /\ totals = InstantStatsDefault
    /\ summary = None
    /\ log = [c \in Conns |-> <<>>]
    /\ issued = [c \in Conns |-> 0]
    /\ handled = [w \in Workers |-> [r \in Responses |-> 0]]
    /\ issued_after_clear = [c \in Conns |-> 0]
    /\ tokens = 0
    /\ timers_started = [w \in Workers |-> 0]
    /\ engine_calls = [c \in Conns |-> [setup |-> 0, cleanup |-> 0]]
    /\ runtime = None /\ divvied = None /\ uri_provider = None /\ timed = None
    /\ traffic = None /\ stream = None /\ supplier = None /\ launch = None
    /\ conditions = None /\ delta = None /\ sampled = None /\ s3 = None

\* ------------------------------------------------------ Connection::run
Alive(c) == wres[c[1]] = "running"

\* worker.rs 85-111, 166-188 / 191-243 and connection.rs 55-57: the task
\* loads its body or entropy, calls engine.setup() and reaches the barrier
EngineSetup(c) ==
    /\ Alive(c) /\ pc[c] = "spawned"
    /\ pc' = [pc EXCEPT ![c] = "barrier"]
    /\ arrived' = [arrived EXCEPT ![c[1]] = @ + 1]
    /\ log' = [log EXCEPT ![c] = <<<<"engine.setup", 0, TRUE>>>>]
    /\ engine_calls' = [engine_calls EXCEPT ![c].setup = @ + 1]
    /\ UNCHANGED <<fvars, tokens, timers_started, cfg, run_flag, local_run,
                   num_requests, collector, timer, stats, wres, run_infos,
                   rpc, previous_stats, totals, summary, issued, handled,
                   issued_after_clear>>

\* connection.rs 57-78: the barrier lets the task through, every hook gets
\* after_setup (completion.rs 50-60 spawns the sleep task), then
\* TcpStream::connect and the handshake; on success start_time is taken,
\* on failure the task ends with the error (67) or the panic (69)
AfterSetup(c) ==
    /\ Alive(c) /\ pc[c] = "barrier"
    /\ arrived[c[1]] >= BarrierSize(c[1])
    /\ timer' = IF Has(c, "DurationCompletion")
                THEN [timer EXCEPT ![c[1]] = "armed"] ELSE timer
    /\ timers_started' = IF Has(c, "DurationCompletion")
                         THEN [timers_started EXCEPT ![c[1]] = @ + 1]
                         ELSE timers_started
    /\ \E ok \in BOOLEAN :
        IF ok
        THEN /\ pc' = [pc EXCEPT ![c] = "loop"]
             /\ log' = [log EXCEPT ![c] = @ \o HookCalls(c, "after_setup")
                                            \o <<<<"connect", 0, TRUE>>>>]
        ELSE /\ pc' = [pc EXCEPT ![c] = "failed"]
             /\ log' = [log EXCEPT ![c] = <<>>]
    /\ UNCHANGED <<fvars, engine_calls, tokens, cfg, run_flag, local_run,
                   num_requests, collector, arrived, stats, wres, run_infos,
                   rpc, previous_stats, totals, summary, issued, handled,
                   issued_after_clear>>

\* connection.rs 81-83 and 116-124: the flag check at the head of the loop;
\* when it fails the task takes end_time, cleans up and returns Ok
LoopCheck(c) ==
    /\ Alive(c) /\ pc[c] = "loop"
    /\ IF ShouldRun(c)
       THEN /\ cfg.mode = "Duration" => issued[c] < MaxIssued
            /\ pc' = [pc EXCEPT ![c] = "checked"]
            /\ UNCHANGED issued_after_clear
       ELSE /\ pc' = [pc EXCEPT ![c] = "done"]
            /\ issued_after_clear' = [issued_after_clear EXCEPT ![c] = 0]
    /\ engine_calls' = IF ShouldRun(c) THEN engine_calls
                       ELSE [engine_calls EXCEPT ![c].cleanup = @ + 1]
    /\ log' = [log EXCEPT ![c] = <<>>]
    /\ UNCHANGED <<fvars, tokens, timers_started, cfg, run_flag, local_run,
                   num_requests, collector, arrived, timer, stats, wres,
                   run_infos, rpc, previous_stats, totals, summary, issued,
                   handled>>

\* connection.rs 85-100: should_issue_request down the chain (a denied
\* rate-limit check sleeps, rate_limit.rs 32-34, and `continue 'run`); if
\* every hook agrees, engine.request and before_request on every hook, and
\* the request is handed to the sender
Issue(c) ==
    /\ Alive(c) /\ pc[c] = "checked"
    /\ \E grant \in (IF Has(c, "RateLimit") THEN BOOLEAN ELSE {TRUE}) :
        LET ff == FirstFalse(c, grant)
            counted == Counted(c, grant)
        IN
        /\ num_requests' = IF counted THEN [num_requests EXCEPT ![c] = @ + 1]
                           ELSE num_requests
        /\ tokens' = IF Has(c, "RateLimit") /\ grant THEN tokens + 1 ELSE tokens
        /\ local_run' = IF ff # 0 /\ Chain(c)[ff] = "RequestsCompletion"
                        THEN ClearLocalRun(local_run, c) ELSE local_run
        /\ IF ff # 0
           THEN /\ pc' = [pc EXCEPT ![c] = "loop"]
                /\ log' = [log EXCEPT ![c] = ShouldIssueCalls(c, grant)]
                /\ UNCHANGED <<collector, issued, issued_after_clear>>
           ELSE /\ pc' = [pc EXCEPT ![c] = "send"]
                /\ log' = [log EXCEPT ![c] = ShouldIssueCalls(c, grant)
                                \o <<<<"engine.request", 0, TRUE>>>>
                                \o HookCalls(c, "before_request")]
                /\ collector' = [collector EXCEPT ![c].start = TRUE,
                                                  ![c].req_size = BodyLen]
                /\ issued' = [issued EXCEPT ![c] = @ + 1]
                /\ issued_after_clear' =
                       IF run_flag THEN issued_after_clear
                       ELSE [issued_after_clear EXCEPT ![c] = @ + 1]
    /\ UNCHANGED <<fvars, engine_calls, timers_started, cfg, run_flag,
                   arrived, timer, stats, wres, run_infos, rpc,
                   previous_stats, totals, summary, handled>>

\* a connection that ends its loop at the first error status
RespondStopsOnError(c) ==
    /\ Alive(c) /\ pc[c] = "send"
    /\ collector[c].start
    /\ \E r \in cfg.stub :
        /\ stats' = [stats EXCEPT ![c[1]] = AfterResponse(@, collector[c], r)]
        /\ handled' = [handled EXCEPT ![c[1]][r] = @ + 1]
        /\ pc' = [pc EXCEPT ![c] = IF IsSuccess(r[1]) THEN "loop" ELSE "done"]
    /\ collector' = [collector EXCEPT ![c].time_to_first_byte = TRUE]
    /\ log' = [log EXCEPT ![c] = @ \o <<<<"send_request", 0, TRUE>>>>
                                   \o HookCalls(c, "after_request")
                                   \o <<<<"engine.response", 0, TRUE>>>>
                                   \o HookCalls(c, "after_response")]
    /\ UNCHANGED <<fvars, engine_calls, tokens, timers_started, cfg, run_flag,
                   local_run, num_requests, arrived, timer, wres, run_infos,
                   rpc, previous_stats, totals, summary, issued,
                   issued_after_clear>>

\* connection.rs 103-113: the response arrives; after_request on every hook
\* (connection/stats.rs 37-40), engine.response drains the body,
\* after_response on every hook (connection/stats.rs 42-68, under the write lock)
Respond(c) ==
    /\ Alive(c) /\ pc[c] = "send"
    /\ collector[c].start
    /\ \E r \in cfg.stub :
        /\ stats' = [stats EXCEPT ![c[1]] = AfterResponse(@, collector[c], r)]
        /\ handled' = [handled EXCEPT ![c[1]][r] = @ + 1]
    /\ pc' = [pc EXCEPT ![c] = "loop"]
    /\ collector' = [collector EXCEPT ![c].time_to_first_byte = TRUE]
    /\ log' = [log EXCEPT ![c] = @ \o <<<<"send_request", 0, TRUE>>>>
                                   \o HookCalls(c, "after_request")
                                   \o <<<<"engine.response", 0, TRUE>>>>
                                   \o HookCalls(c, "after_response")]
    /\ UNCHANGED <<fvars, engine_calls, tokens, timers_started, cfg, run_flag,
                   local_run, num_requests, arrived, timer, wres, run_infos,
                   rpc, previous_stats, totals, summary, issued,
                   issued_after_clear>>

\* The other places where a connection task ends with an error or a panic:
\* worker.rs 173-174 / 197-199 / 207 (before the barrier), connection.rs 96
\* (engine.request), 103 (send_request), 109 with simple.rs 54 / s3.rs 134
\* (a frame error while draining)
FailPoints == {"spawned", "checked", "send"}

Fail(c) ==
    /\ Alive(c) /\ pc[c] \in FailPoints
    /\ pc' = [pc EXCEPT ![c] = "failed"]
    /\ log' = [log EXCEPT ![c] = <<>>]
    /\ issued_after_clear' = [issued_after_clear EXCEPT ![c] = 0]
    /\ UNCHANGED <<fvars, engine_calls, tokens, timers_started, cfg, run_flag,
                   local_run, num_requests, collector, arrived, timer, stats,
                   wres, run_infos, rpc, previous_stats, totals, summary,
                   issued, handled>>

\* -------------------------------------------------------------- Worker::run
Finished(c) == pc[c] \in {"done", "failed"}

\* worker.rs 116-127: every handle awaited in index order gave Ok; the
\* WorkerInfo holds one ConnectionRunInfo (here: the connection's index)
\* per handle.  The thread ends and its LocalSet is dropped.
WorkerReturnOk(w) ==
    /\ wres[w] = "running"
    /\ \A c \in ConnsOf(w) : pc[c] = "done"
    /\ wres' = [wres EXCEPT ![w] = "ok"]
    /\ run_infos' = [run_infos EXCEPT ![w] = [k \in 1..NumConnections[w] |-> k - 1]]
    /\ timer' = [timer EXCEPT ![w] = IF @ = "armed" THEN "dropped" ELSE @]
    /\ UNCHANGED <<fvars, engine_calls, tokens, timers_started, cfg, run_flag,
                   pc, local_run, num_requests, collector, arrived, stats,
                   rpc, previous_stats, totals, summary, log, issued, handled,
                   issued_after_clear>>

\* worker.rs 118-120: `h.await??` on the first handle, in index order, whose
\* task failed returns the error from Worker::run; block_on returns
\* (run.rs 146-150) and dropping the LocalSet drops every task still on it
WorkerReturnErr(w) ==
    /\ wres[w] = "running"
    /\ \E c \in ConnsOf(w) :
        /\ pc[c] = "failed"
        /\ \A d \in ConnsOf(w) : d[2] < c[2] => pc[d] = "done"
    /\ wres' = [wres EXCEPT ![w] = "err"]
    /\ pc' = [c \in Conns |-> IF c[1] = w /\ ~Finished(c) THEN "aborted" ELSE pc[c]]
    /\ log' = [c \in Conns |-> IF c[1] = w /\ ~Finished(c) THEN <<>> ELSE log[c]]
    /\ issued_after_clear' = [c \in Conns |-> IF c[1] = w /\ ~Finished(c) THEN 0
                                                ELSE issued_after_clear[c]]
    /\ timer' = [timer EXCEPT ![w] = IF @ = "armed" THEN "dropped" ELSE @]
    /\ UNCHANGED <<fvars, engine_calls, tokens, timers_started, cfg, run_flag,
                   local_run, num_requests, collector, arrived, stats,
                   run_infos, rpc, previous_stats, totals, summary, issued,
                   handled>>

\* connection/completion.rs 54-57: the sleep ends, the global flag is cleared
TimerFire(w) ==
    /\ timer[w] = "armed"
    /\ timer' = [timer EXCEPT ![w] = "fired"]
    /\ run_flag' = FALSE
    /\ UNCHANGED <<fvars, engine_calls, tokens, timers_started, cfg, pc,
                   local_run, num_requests, collector, arrived, stats, wres,
                   run_infos, rpc, previous_stats, totals, summary, log,
                   issued, handled, issued_after_clear>>

\* run.rs 30-32: the Ctrl-C handler
SigInt ==
    /\ run_flag /\ rpc \notin {"done", "exit"}
    /\ run_flag' = FALSE
    /\ UNCHANGED <<fvars, engine_calls, tokens, timers_started, cfg, pc,
                   local_run, num_requests, collector, arrived, timer, stats,
                   wres, run_infos, rpc, previous_stats, totals, summary, log,
                   issued, handled, issued_after_clear>>

\* ------------------------------------------------------------------ runner
\* scaled-down usize::MAX of stats.rs 210
UsizeMax == 255

\* stats.rs 205-212
Changed(prev, curr) ==
    IF curr >= prev THEN curr - prev ELSE (UsizeMax - prev) + curr

\* stats.rs 173-186
InstantStatsChanged(self, since) ==
    [requests_issued |-> Changed(since.requests_issued, self.requests_issued),
     bytes_written |-> Changed(since.bytes_written, self.bytes_written),
     bytes_read |-> Changed(since.bytes_read, self.bytes_read)]

InstantStatsOf(st) ==
    [requests_issued |-> st.requests_issued, bytes_written |-> st.bytes_written,
     bytes_read |-> st.bytes_read]

\* run.rs 194-221: the per-worker deltas since the previous sample, summed
RECURSIVE SumInstantStats(_, _, _)
SumInstantStats(prev, th, n) ==
    IF n = 0 THEN InstantStatsDefault
    ELSE LET acc == SumInstantStats(prev, th, n - 1)
             ch == InstantStatsChanged(InstantStatsOf(th[n - 1]), prev[n - 1])
         IN [requests_issued |-> acc.requests_issued + ch.requests_issued,
             bytes_written |-> acc.bytes_written + ch.bytes_written,
             bytes_read |-> acc.bytes_read + ch.bytes_read]

\* a merge that keeps the count of the first worker that has a status
MergeErrorsKeepFirst(acc, m, keys) ==
    [k \in DOMAIN acc \cup keys |-> IF k \in DOMAIN acc THEN acc[k] ELSE m[k]]

\* run.rs 230-235: every (status, count) of one worker added into acc
RECURSIVE MergeErrors(_, _, _)
MergeErrors(acc, m, keys) ==
    IF keys = {} THEN acc
    ELSE LET k == CHOOSE x \in keys : TRUE IN
         MergeErrors(MapAdd(acc, k, m[k]), m, keys \ {k})

\* run.rs 223-238
RECURSIVE SummarizeWorkerStats(_, _)
SummarizeWorkerStats(th, n) ==
    IF n = 0 THEN [errors |-> EmptyMap, rtt_latency_hist |-> 0, ttfb_latency_hist |-> 0]
    ELSE LET acc == SummarizeWorkerStats(th, n - 1)
             cur == th[n - 1]
         IN [errors |-> MergeErrors(acc.errors, cur.errors, DOMAIN cur.errors),
             rtt_latency_hist |-> acc.rtt_latency_hist + cur.rtt_latency_hist,
             ttfb_latency_hist |-> acc.ttfb_latency_hist + cur.ttfb_latency_hist]

\* run.rs 172-175: the head of the progress loop
RunnerCheck ==
    /\ rpc = "check"
    /\ rpc' = IF ~run_flag \/ \A w \in Workers : wres[w] # "running"
              THEN "join" ELSE "sleep"
    /\ UNCHANGED <<fvars, engine_calls, tokens, timers_started, cfg, run_flag,
                   pc, local_run, num_requests, collector, arrived, timer,
                   stats, wres, run_infos, previous_stats, totals, summary,
                   log, issued, handled, issued_after_clear>>

\* run.rs 177-189: after the one-second sleep, sample and accumulate
RunnerTick ==
    /\ rpc = "sleep"
    /\ LET d == SumInstantStats(previous_stats, stats, Threads) IN
       totals' = [requests_issued |-> totals.requests_issued + d.requests_issued,
                  bytes_written |-> totals.bytes_written + d.bytes_written,
                  bytes_read |-> totals.bytes_read + d.bytes_read]
    /\ previous_stats' = [w \in Workers |-> InstantStatsOf(stats[w])]
    /\ rpc' = "check"
    /\ UNCHANGED <<fvars, engine_calls, tokens, timers_started, cfg, run_flag,
                   pc, local_run, num_requests, collector, arrived, timer,
                   stats, wres, run_infos, summary, log, issued, handled,
                   issued_after_clear>>

\* a runner that gives up as soon as one worker failed
InfosAllOrNothing ==
    IF \A w \in Workers : wres[w] = "ok" THEN Workers ELSE {}

\* run.rs 83-93: the workers whose join gave Ok(Ok(info)); a panicked or
\* failed worker is logged and left out
Infos == {w \in Workers : wres[w] = "ok"}

\* run.rs 83-113: join every worker thread; exit(1) if none returned a
\* WorkerInfo, otherwise build the summary from the loop's totals
RunnerJoin ==
    /\ rpc = "join"
    /\ \A w \in Workers : wres[w] # "running"
    /\ IF Infos = {}
       THEN rpc' = "exit" /\ UNCHANGED summary
       ELSE /\ rpc' = "done"
            /\ summary' = [requests_issued |-> totals.requests_issued,
                           bytes_written |-> totals.bytes_written,
                           bytes_read |-> totals.bytes_read,
                           run_stats |-> SummarizeWorkerStats(stats, Threads)]
    /\ UNCHANGED <<fvars, engine_calls, tokens, timers_started, cfg, run_flag,
                   pc, local_run, num_requests, collector, arrived, timer,
                   stats, wres, run_infos, previous_stats, totals, log,
                   issued, handled, issued_after_clear>>

\* ------------------------------------------------------------------ Next
Next ==
    \/ \E c \in Conns : EngineSetup(c)
    \/ \E c \in Conns : AfterSetup(c)
    \/ \E c \in Conns : LoopCheck(c)
    \/ \E c \in Conns : Issue(c)
    \/ \E c \in Conns : Respond(c)
    \/ \E c \in Conns : Fail(c)
    \/ \E w \in Workers : WorkerReturnOk(w)
    \/ \E w \in Workers : WorkerReturnErr(w)
    \/ \E w \in Workers : TimerFire(w)
    \/ SigInt
    \/ RunnerCheck
    \/ RunnerTick
    \/ RunnerJoin

Spec == Init /\ [][Next]_vars

\* ============================================ components checked on their own
\* the variables of a run, at rest while a component is checked on its own
mainvars == <<cfg, run_flag, pc, local_run, num_requests, collector, arrived,
              timer, stats, wres, run_infos, rpc, previous_stats, totals,
              summary, log, issued, handled, issued_after_clear, tokens,
              timers_started, engine_calls>>

Parked ==
    /\ cfg = None /\ run_flag = TRUE /\ pc = None /\ local_run = None
    /\ num_requests = None /\ collector = None /\ arrived = None
    /\ timer = None /\ stats = None /\ wres = None /\ run_infos = None
    /\ rpc = None /\ previous_stats = None /\ totals = None /\ summary = None
    /\ log = None /\ issued = None /\ handled = None
    /\ issued_after_clear = None /\ tokens = 0 /\ timers_started = None
    /\ engine_calls = None

\* ------------------------------------------- cmd/run.rs: get_total_runtime
MaxInstant == 3     \* Instants are 0..MaxInstant
MaxInfos == 2       \* workers that returned a WorkerInfo
MaxRunInfos == 2    \* connections of one worker

\* connection.rs 35-39
ConnectionRunInfo ==
    {[start_time |-> a, end_time |-> b] : a \in 0..MaxInstant, b \in 0..MaxInstant}

SeqsUpTo(S, n) == UNION {[1..k -> S] : k \in 1..n}

\* worker.rs 36-39; a connection starts before it ends (connection.rs 77, 116)
WorkerInfos ==
    {[run_infos |-> ri] :
        ri \in {x \in SeqsUpTo(ConnectionRunInfo, MaxRunInfos) :
                    \A k \in 1..Len(x) : x[k].start_time <= x[k].end_time}}

\* run.rs 244-250: fold(earliest_start, |acc, t| if t.start_time < acc ...)
RECURSIVE FoldEarliestStart(_, _)
FoldEarliestStart(acc, ri) ==
    IF ri = <<>> THEN acc
    ELSE FoldEarliestStart(IF Head(ri).start_time < acc THEN Head(ri).start_time
                           ELSE acc, Tail(ri))

\* run.rs 251-257: fold(earliest_start, |acc, t| if t.end_time > acc ...)
RECURSIVE FoldLatestEnd(_, _)
FoldLatestEnd(acc, ri) ==
    IF ri = <<>> THEN acc
    ELSE FoldLatestEnd(IF Head(ri).end_time > acc THEN Head(ri).end_time
                       ELSE acc, Tail(ri))

\* run.rs 243-258: the loop over the infos; latest_end is assigned anew, from
\* a fold that starts at earliest_start, for every info
RECURSIVE TotalRuntimeLoop(_, _, _)
TotalRuntimeLoop(infos, earliest_start, latest_end) ==
    IF infos = <<>> THEN latest_end - earliest_start
    ELSE LET es == FoldEarliestStart(earliest_start, Head(infos).run_infos)
             le == FoldLatestEnd(es, Head(infos).run_infos)
         IN TotalRuntimeLoop(Tail(infos), es, le)

\* run.rs 240-262; both Instant::now() come after every recorded instant
GetTotalRuntime(infos, now) == TotalRuntimeLoop(infos, now, now)

RuntimeInit ==
    /\ Parked
    /\ runtime \in {[infos |-> i, now |-> MaxInstant, called |-> FALSE, total_runtime |-> 0] :
                        i \in SeqsUpTo(WorkerInfos, MaxInfos)}
    /\ divvied = None /\ uri_provider = None /\ timed = None /\ traffic = None
    /\ stream = None /\ supplier = None /\ launch = None /\ conditions = None
    /\ delta = None /\ sampled = None /\ s3 = None

\* run.rs 99
CallGetTotalRuntime ==
    /\ ~runtime.called
    /\ runtime' = [runtime EXCEPT
                      !.called = TRUE,
                      !.total_runtime = GetTotalRuntime(runtime.infos, runtime.now)]
    /\ UNCHANGED <<mainvars, divvied, uri_provider, timed, traffic, stream,
                   supplier, launch, conditions, delta, sampled, s3>>

RuntimeNext == CallGetTotalRuntime

RuntimeSpec == RuntimeInit /\ [][RuntimeNext]_vars

\* --------------------------- a duration run of one worker, against a clock
\* The clock counts scheduler ticks.  The connections have just been let
\* through the barrier; connection 0 carries the DurationCompletion hook.
TimedConns == 2     \* connections of the worker
MaxDuration == 2    \* args.duration is 1..MaxDuration ticks
MaxClock == 5       \* the clock stops here

Unset == -1

TimedInit ==
    /\ Parked
    /\ timed \in {[duration_cond |-> d, clock |-> 0,
                   at |-> [i \in 0..(TimedConns - 1) |-> "barrier"],
                   armed_at |-> Unset,
                   start_time |-> [i \in 0..(TimedConns - 1) |-> Unset],
                   cleared_at |-> Unset] : d \in 1..MaxDuration}
    /\ runtime = None /\ divvied = None /\ uri_provider = None
    /\ traffic = None /\ stream = None /\ supplier = None /\ launch = None
    /\ conditions = None /\ delta = None /\ sampled = None /\ s3 = None

\* the sleep of completion.rs 56 has run its time and has not yet ended
TimerDue ==
    /\ timed.armed_at # Unset /\ timed.cleared_at = Unset
    /\ timed.clock >= timed.armed_at + timed.duration_cond

\* connection.rs 59-61 and completion.rs 52-58: after_setup on every hook;
\* connection 0's spawns the sleep task; then TcpStream::connect is begun
TimedAfterSetup(i) ==
    /\ timed.at[i] = "barrier"
    /\ timed' = [timed EXCEPT
                    !.at[i] = "connecting",
                    !.armed_at = IF i = 0 THEN timed.clock ELSE @]
    /\ UNCHANGED <<mainvars, runtime, divvied, uri_provider, traffic, stream,
                   supplier, launch, conditions, delta, sampled, s3>>

\* connection.rs 67-77: connect and handshake are done, start_time is taken
TimedConnected(i) ==
    /\ timed.at[i] = "connecting"
    /\ timed' = [timed EXCEPT !.at[i] = "running", !.start_time[i] = timed.clock]
    /\ UNCHANGED <<mainvars, runtime, divvied, uri_provider, traffic, stream,
                   supplier, launch, conditions, delta, sampled, s3>>

\* completion.rs 56-57: the sleep ends, the global flag is cleared
TimedFire ==
    /\ TimerDue
    /\ timed' = [timed EXCEPT !.cleared_at = timed.clock]
    /\ UNCHANGED <<mainvars, runtime, divvied, uri_provider, traffic, stream,
                   supplier, launch, conditions, delta, sampled, s3>>

\* a scheduler tick goes by; a due timer is run within one tick
TimedTick ==
    /\ timed.clock < MaxClock
    /\ TimerDue => timed.clock < timed.armed_at + timed.duration_cond + 1
    /\ timed' = [timed EXCEPT !.clock = @ + 1]
    /\ UNCHANGED <<mainvars, runtime, divvied, uri_provider, traffic, stream,
                   supplier, launch, conditions, delta, sampled, s3>>

TimedNext ==
    \/ \E i \in 0..(TimedConns - 1) : TimedAfterSetup(i)
    \/ \E i \in 0..(TimedConns - 1) : TimedConnected(i)
    \/ TimedFire
    \/ TimedTick

TimedSpec == TimedInit /\ [][TimedNext]_vars

\* ------------------------------------------------------- util.rs: divvy
MaxToDivvy == 11    \* to_divvy is 0..MaxToDivvy
MaxNumItems == 5    \* num_items is 1..MaxNumItems

DivvyInit ==
    /\ Parked
    /\ divvied \in {[to_divvy |-> n, num_items |-> k, called |-> FALSE, out |-> <<>>] :
                        n \in 0..MaxToDivvy, k \in 1..MaxNumItems}
    /\ runtime = None /\ uri_provider = None /\ timed = None /\ traffic = None
    /\ stream = None /\ supplier = None /\ launch = None /\ conditions = None
    /\ delta = None /\ sampled = None /\ s3 = None

\* run.rs 49, 62 and worker.rs 66: the iterator is collected
CallDivvy ==
    /\ ~divvied.called
    /\ divvied' = [divvied EXCEPT
                      !.called = TRUE,
                      !.out = Divvy(divvied.to_divvy, divvied.num_items)]
    /\ UNCHANGED <<mainvars, runtime, uri_provider, timed, traffic, stream,
                   supplier, launch, conditions, delta, sampled, s3>>

DivvyNext == CallDivvy

DivvySpec == DivvyInit /\ [][DivvyNext]_vars

\* ------------------------------------------- engine/s3/uri.rs: UriProvider
MaxDepth == 2       \* depth is 0..MaxDepth
MaxNumObjs == 2     \* num_objs is 1..MaxNumObjs
MaxBranches == 3    \* num_branch_per_depth is 1..MaxBranches
MaxCalls == 20      \* calls to next()

\* a digit that is incremented without a carry into the next one
IncrementNoCarry(digits, radix, i) ==
    [digits EXCEPT ![i] = (@ + 1) % radix]

\* uri.rs 20-29: the loop of increment, at digit i (counted from 1)
RECURSIVE IncrementFrom(_, _, _)
IncrementFrom(digits, radix, i) ==
    LET d == [digits EXCEPT ![i] = (@ + 1) % radix] IN
    IF d[i] = 0 /\ i # 1 THEN IncrementFrom(d, radix, i - 1) ELSE d

\* uri.rs 18-30: ArbitraryRadixNumber::increment starts at the last digit
Increment(digits, radix) == IncrementFrom(digits, radix, Len(digits))

\* uri.rs 79-95: the Uri, as its parts: "{base}/{bucket}/", one "{i}/" for
\* every digit, then the object prefix and obj_cnt
FormatUri(p) ==
    [base |-> "base", bucket |-> "bucket",
     dir_prefix |-> IF p.has_radix_num THEN p.digits ELSE <<>>,
     obj_prefix |-> "obj_prefix", obj_cnt |-> p.obj_cnt]

\* uri.rs 52-73: UriProvider::new
UriProviderNew(depth, num_objs, num_branch_per_depth) ==
    [num_objs_per_prefix |-> num_objs, obj_cnt |-> 0,
     has_radix_num |-> depth > 0,
     digits |-> [i \in 1..depth |-> 0], radix |-> num_branch_per_depth,
     calls |-> 0, uri |-> FormatUri([has_radix_num |-> FALSE, obj_cnt |-> 0])]

UriInit ==
    /\ Parked
    /\ uri_provider \in {UriProviderNew(d, n, b) :
                            d \in 0..MaxDepth, n \in 1..MaxNumObjs, b \in 1..MaxBranches}
    /\ runtime = None /\ divvied = None /\ timed = None /\ traffic = None
    /\ stream = None /\ supplier = None /\ launch = None /\ conditions = None
    /\ delta = None /\ sampled = None /\ s3 = None

\* uri.rs 75-107: UriProvider::next, the provider after the call; its uri
\* field is the Uri the call returned
NextUri(p) ==
    LET cnt == (p.obj_cnt + 1) % p.num_objs_per_prefix
    IN [p EXCEPT !.uri = FormatUri(p),
                 !.obj_cnt = cnt,
                 !.digits = IF cnt = 0 /\ p.has_radix_num
                            THEN Increment(p.digits, p.radix) ELSE @,
                 !.calls = @ + 1]

\* uri.rs 75-107: UriProvider::next
UriNext ==
    /\ uri_provider.calls < MaxCalls
    /\ uri_provider' = NextUri(uri_provider)
    /\ UNCHANGED <<mainvars, runtime, divvied, timed, traffic, stream,
                   supplier, launch, conditions, delta, sampled, s3>>

UriProviderNext == UriNext

UriSpec == UriInit /\ [][UriProviderNext]_vars

\* --------------------------------- engine/s3/traffic.rs: TrafficStateMachine
MaxTrafficCalls == 6    \* calls to TrafficStateMachine::next()

TrafficPattern == {"Put", "Get", "Both"}

\* a machine whose construction takes two URIs from its provider
TrafficStateMachineNewSkipsOne(pattern, uri_supplier) ==
    LET s == NextUri(NextUri(uri_supplier))
    IN [pattern |-> pattern, uri_supplier |-> s,
        state |-> [kind |-> IF pattern = "Get" THEN "Get" ELSE "Put", uri |-> s.uri]]

\* traffic.rs 19-33: TrafficStateMachine::new
TrafficStateMachineNew(pattern, uri_supplier) ==
    LET s == NextUri(uri_supplier)
    IN [pattern |-> pattern, uri_supplier |-> s,
        state |-> [kind |-> IF pattern = "Get" THEN "Get" ELSE "Put", uri |-> s.uri]]

\* a Both machine whose GET takes a fresh URI from the provider
NewStateFreshGet(m) ==
    LET s == NextUri(m.uri_supplier)
    IN CASE m.pattern = "Put" ->
              [state |-> [kind |-> "Put", uri |-> s.uri], uri_supplier |-> s]
         [] m.pattern = "Get" ->
              [state |-> [kind |-> "Get", uri |-> s.uri], uri_supplier |-> s]
         [] m.pattern = "Both" ->
              [state |-> [kind |-> IF m.state.kind = "Put" THEN "Get" ELSE "Put",
                          uri |-> s.uri],
               uri_supplier |-> s]

\* traffic.rs 36-54: new_state, and the provider after it was computed
NewState(m) ==
    LET s == NextUri(m.uri_supplier)
    IN CASE m.pattern = "Put" ->
              [state |-> [kind |-> "Put", uri |-> s.uri], uri_supplier |-> s]
         [] m.pattern = "Get" ->
              [state |-> [kind |-> "Get", uri |-> s.uri], uri_supplier |-> s]
         [] m.pattern = "Both" ->
              IF m.state.kind = "Put"
              THEN [state |-> [kind |-> "Get", uri |-> m.state.uri],
                    uri_supplier |-> m.uri_supplier]
              ELSE [state |-> [kind |-> "Put", uri |-> s.uri], uri_supplier |-> s]

\* traffic.rs 66-71, 80-84, 93-97: a machine built on a clone of a provider;
\* new holds the provider's arguments, returned the states next() gave
TrafficInit ==
    /\ Parked
    /\ traffic \in {[machine |-> TrafficStateMachineNew(pat, UriProviderNew(d, n, b)),
                     new |-> [depth |-> d, num_objs |-> n, num_branch_per_depth |-> b],
                     returned |-> <<>>] :
                        pat \in TrafficPattern, d \in 0..MaxDepth,
                        n \in 1..MaxNumObjs, b \in 1..MaxBranches}
    /\ runtime = None /\ divvied = None /\ uri_provider = None /\ timed = None
    /\ stream = None /\ supplier = None /\ launch = None /\ conditions = None
    /\ delta = None /\ sampled = None /\ s3 = None

\* traffic.rs 35-56: TrafficStateMachine::next, the state it returns and the
\* machine after the call
TrafficCopNext(m) ==
    LET n == NewState(m)
    IN [state |-> m.state,
        machine |-> [m EXCEPT !.state = n.state,
                              !.uri_supplier = n.uri_supplier]]

\* traffic.rs 35-56: TrafficStateMachine::next stores new_state and returns
\* the state it replaced (mem::replace)
TrafficStateMachineNext ==
    /\ Len(traffic.returned) < MaxTrafficCalls
    /\ LET r == TrafficCopNext(traffic.machine)
       IN traffic' = [traffic EXCEPT
                         !.machine = r.machine,
                         !.returned = Append(@, r.state)]
    /\ UNCHANGED <<mainvars, runtime, divvied, uri_provider, timed, stream,
                   supplier, launch, conditions, delta, sampled, s3>>

TrafficNext == TrafficStateMachineNext

TrafficSpec == TrafficInit /\ [][TrafficNext]_vars

\* ------------------------- stream/perpetual_stream.rs: PerpetualByteStream
MaxBufLen == 4      \* the buffer holds 1..MaxBufLen bytes
MaxStreamLen == 9   \* len is 0..MaxStreamLen
MaxChunkSize == 5   \* CHUNK_SIZE is 1..MaxChunkSize
MaxNonePolls == 2   \* a stream is polled until it gave None this many times

Min(a, b) == IF a <= b THEN a ELSE b

\* &as_slice[from..to], positions counted from 0
Slice(inner, from, to) == [k \in 1..(to - from) |-> inner[from + k]]

\* perpetual_stream.rs 32-39
PerpetualByteStreamNew(inner, starting_offset, len) ==
    [inner |-> inner, idx |-> starting_offset, num_to_read |-> len, num_read |-> 0]

\* a stream that always cuts a full chunk
PollNextFullChunks(s, CHUNK_SIZE) ==
    IF s.num_read < s.num_to_read
    THEN LET chunk_size == CHUNK_SIZE
             fits == s.idx + chunk_size <= Len(s.inner)
             subslice == IF fits THEN Slice(s.inner, s.idx, s.idx + chunk_size)
                         ELSE Slice(s.inner, s.idx, Len(s.inner))
         IN [frame |-> subslice, some |-> TRUE,
             stream |-> [s EXCEPT !.idx = IF fits THEN s.idx + chunk_size ELSE 0,
                                  !.num_read = @ + Len(subslice)]]
    ELSE [frame |-> <<>>, some |-> FALSE, stream |-> s]

\* a stream that stays at the end of the buffer
PollNextNoWrap(s, CHUNK_SIZE) ==
    IF s.num_read < s.num_to_read
    THEN LET chunk_size == Min(s.num_to_read - s.num_read, CHUNK_SIZE)
             fits == s.idx + chunk_size <= Len(s.inner)
             subslice == IF fits THEN Slice(s.inner, s.idx, s.idx + chunk_size)
                         ELSE Slice(s.inner, s.idx, Len(s.inner))
         IN [frame |-> subslice, some |-> TRUE,
             stream |-> [s EXCEPT !.idx = IF fits THEN s.idx + chunk_size
                                          ELSE Len(s.inner),
                                  !.num_read = @ + Len(subslice)]]
    ELSE [frame |-> <<>>, some |-> FALSE, stream |-> s]

\* perpetual_stream.rs 44-74: poll_next gives Some(frame) or None, and the
\* stream after the call
PollNext(s, CHUNK_SIZE) ==
    IF s.num_read < s.num_to_read
    THEN LET chunk_size == Min(s.num_to_read - s.num_read, CHUNK_SIZE)
             fits == s.idx + chunk_size <= Len(s.inner)
             subslice == IF fits THEN Slice(s.inner, s.idx, s.idx + chunk_size)
                         ELSE Slice(s.inner, s.idx, Len(s.inner))
         IN [frame |-> subslice, some |-> TRUE,
             stream |-> [s EXCEPT !.idx = IF fits THEN s.idx + chunk_size ELSE 0,
                                  !.num_read = @ + Len(subslice)]]
    ELSE [frame |-> <<>>, some |-> FALSE, stream |-> s]

\* worker.rs 197-201: the buffer; its bytes are told apart by their position
Buffer(n) == [k \in 1..n |-> k - 1]

StreamInit ==
    /\ Parked
    /\ stream \in {[s |-> PerpetualByteStreamNew(Buffer(n), o, len),
                    starting_offset |-> o, CHUNK_SIZE |-> c,
                    out |-> <<>>, frames |-> 0, ended |-> FALSE,
                    sizes |-> <<>>, polls |-> 0, nones |-> 0] :
                       n \in 1..MaxBufLen, o \in 0..(MaxBufLen - 1),
                       len \in 0..MaxStreamLen, c \in 1..MaxChunkSize}
    /\ stream.starting_offset < Len(stream.s.inner)
    /\ runtime = None /\ divvied = None /\ uri_provider = None /\ timed = None
    /\ traffic = None /\ supplier = None /\ launch = None /\ conditions = None
    /\ delta = None /\ sampled = None /\ s3 = None

\* the body is polled until the stream gives None, and after that
StreamPoll ==
    /\ stream.nones < MaxNonePolls
    /\ LET r == PollNext(stream.s, stream.CHUNK_SIZE)
       IN stream' = [stream EXCEPT
              !.s = r.stream,
              !.out = @ \o r.frame,
              !.frames = IF r.some THEN @ + 1 ELSE @,
              !.sizes = IF r.some THEN Append(@, Len(r.frame)) ELSE @,
              !.polls = @ + 1,
              !.nones = IF r.some THEN @ ELSE @ + 1,
              !.ended = ~r.some]
    /\ UNCHANGED <<mainvars, runtime, divvied, uri_provider, timed, traffic,
                   supplier, launch, conditions, delta, sampled, s3>>

StreamNext == StreamPoll

StreamSpec == StreamInit /\ [][StreamNext]_vars

\* ----------------- stream/perpetual_stream.rs: PerpetualByteStreamSupplier
MaxSupplierLen == 3     \* len is 0..MaxSupplierLen
MaxCacheLine == 3       \* cache_line_size() is 1..MaxCacheLine
MaxSupplierCalls == 4   \* calls to new_stream and new_stream_with_checksum

\* checksum.rs 11-17, two of the five algorithms
Checksum == {"Md5", "Crc32c"}

\* checksum.rs 48, 70: a fresh hasher
HasherNew(checksum) == IF checksum = "Md5" THEN 7 ELSE 0

\* checksum.rs 51, 73: hasher.update(frame), a digest of the bytes taken so
\* far in their order, one function per algorithm
RECURSIVE HasherUpdate(_, _, _)
HasherUpdate(checksum, h, frame) ==
    IF frame = <<>> THEN h
    ELSE HasherUpdate(checksum,
                      IF checksum = "Md5" THEN (h * 31 + Head(frame) + 1) % 251
                      ELSE (h * 17 + Head(frame) + 3) % 241,
                      Tail(frame))

\* checksum.rs 45-103 with perpetual_stream.rs 201: every frame of the
\* stream goes to the hasher, then the digest is formatted
RECURSIVE ChecksumApply(_, _, _, _)
ChecksumApply(checksum, h, s, CHUNK_SIZE) ==
    LET r == PollNext(s, CHUNK_SIZE) IN
    IF r.some
    THEN ChecksumApply(checksum, HasherUpdate(checksum, h, r.frame), r.stream,
                       CHUNK_SIZE)
    ELSE <<checksum, h>>

\* a cache key that leaves out the offset
StreamCacheKeyNoOffset(checksum, offset, len) ==
    [checksum |-> checksum, offset |-> 0, len |-> len]

\* perpetual_stream.rs 153-158
StreamCacheKey(checksum, offset, len) ==
    [checksum |-> checksum, offset |-> offset, len |-> len]

\* HashMap::entry(key).insert(v)
MapInsert(m, k, v) == [x \in DOMAIN m \cup {k} |-> IF x = k THEN v ELSE m[x]]

\* a warming loop that stops after its first digest
WarmCacheLoopOnce(w, checksum, buf, len, cls, CHUNK_SIZE) ==
    LET offset == (w.offset + cls) % Len(buf)
        key == StreamCacheKey(checksum, offset, len)
    IN [cache |-> MapInsert(w.cache, key,
                      ChecksumApply(checksum, HasherNew(checksum),
                          PerpetualByteStreamNew(buf, offset, len), CHUNK_SIZE)),
        offset |-> offset,
        computed |-> Append(w.computed, key),
        loops |-> w.loops + 1]

\* perpetual_stream.rs 130-147: the loop of warm_cache for one checksum; w
\* holds the cache, the offset, the keys whose digest was computed and the
\* number of times the loop body ran
RECURSIVE WarmCacheLoop(_, _, _, _, _, _)
WarmCacheLoop(w, checksum, buf, len, cls, CHUNK_SIZE) ==
    LET offset == (w.offset + cls) % Len(buf)
        key == StreamCacheKey(checksum, offset, len)
    IN IF key \notin DOMAIN w.cache
       THEN WarmCacheLoop(
                [cache |-> MapInsert(w.cache, key,
                               ChecksumApply(checksum, HasherNew(checksum),
                                   PerpetualByteStreamNew(buf, offset, len),
                                   CHUNK_SIZE)),
                 offset |-> offset,
                 computed |-> Append(w.computed, key),
                 loops |-> w.loops + 1],
                checksum, buf, len, cls, CHUNK_SIZE)
       ELSE [w EXCEPT !.offset = offset, !.loops = @ + 1]

\* perpetual_stream.rs 121-151: warm_cache
RECURSIVE WarmCache(_, _, _, _, _, _)
WarmCache(w, checksums, buf, len, cls, CHUNK_SIZE) ==
    IF checksums = <<>> THEN w
    ELSE WarmCache(WarmCacheLoop(w, Head(checksums), buf, len, cls, CHUNK_SIZE),
                   Tail(checksums), buf, len, cls, CHUNK_SIZE)

\* perpetual_stream.rs 95-118: new (no checksums) and with_checksums
PerpetualByteStreamSupplierNew(buf, offset, len, checksums, cls, CHUNK_SIZE) ==
    LET w == WarmCache([cache |-> <<>>, offset |-> offset, computed |-> <<>>,
                        loops |-> 0],
                       checksums, buf, len, cls, CHUNK_SIZE)
    IN [buf |-> buf, offset |-> offset, len |-> len,
        checksum_cache |-> w.cache, computed |-> w.computed,
        warm_loops |-> w.loops]

\* an offset that is advanced without wrapping at the end of the buffer
AdvanceOffsetNoWrap(offset, cls, n) == offset + cls

\* perpetual_stream.rs 182, 209
AdvanceOffset(offset, cls, n) == (offset + cls) % n

\* perpetual_stream.rs 180-184: new_stream, the stream and the supplier
\* after the call
SupplierNewStream(sup, cls) ==
    [stream |-> PerpetualByteStreamNew(sup.buf, sup.offset, sup.len),
     sup |-> [sup EXCEPT !.offset = AdvanceOffset(@, cls, Len(sup.buf))]]

\* perpetual_stream.rs 186-211: new_stream_with_checksum, the stream, the
\* digest and the supplier after the call
SupplierNewStreamWithChecksum(sup, checksum, cls, CHUNK_SIZE) ==
    LET key == StreamCacheKey(checksum, sup.offset, sup.len)
        hit == key \in DOMAIN sup.checksum_cache
        digest == IF hit THEN sup.checksum_cache[key]
                  ELSE ChecksumApply(checksum, HasherNew(checksum),
                           PerpetualByteStreamNew(sup.buf, sup.offset, sup.len),
                           CHUNK_SIZE)
    IN [stream |-> PerpetualByteStreamNew(sup.buf, sup.offset, sup.len),
        digest |-> digest,
        sup |-> [sup EXCEPT
                    !.checksum_cache = IF hit THEN @ ELSE MapInsert(@, key, digest),
                    !.computed = IF hit THEN @ ELSE Append(@, key),
                    !.offset = AdvanceOffset(@, cls, Len(sup.buf))]]

SupplierInit ==
    /\ Parked
    /\ supplier \in
           {[sup |-> PerpetualByteStreamSupplierNew(Buffer(n), o, len, cs, cls, c),
             cache_line_size |-> cls, CHUNK_SIZE |-> c, calls |-> 0,
             starting_offset |-> o, checksums |-> cs,
             returned |-> PerpetualByteStreamNew(<<>>, 0, 0),
             digests |-> 0,
             last |-> [stream |-> PerpetualByteStreamNew(Buffer(n), o, len),
                       digest |-> <<"", 0>>,
                       key |-> StreamCacheKey("", o, len)],
             given |-> {}] :
                n \in 1..MaxBufLen, o \in 0..(MaxBufLen - 1),
                len \in 0..MaxSupplierLen, cls \in 1..MaxCacheLine,
                c \in {1, MaxChunkSize},
                cs \in {<<>>, <<"Md5">>, <<"Crc32c">>, <<"Md5", "Crc32c">>}}
    /\ supplier.sup.offset < Len(supplier.sup.buf)
    /\ runtime = None /\ divvied = None /\ uri_provider = None /\ timed = None
    /\ traffic = None /\ stream = None /\ launch = None /\ conditions = None
    /\ delta = None /\ sampled = None /\ s3 = None

\* perpetual_stream.rs 180-184: new_stream
NewStream ==
    /\ supplier.calls < MaxSupplierCalls
    /\ LET r == SupplierNewStream(supplier.sup, supplier.cache_line_size)
       IN supplier' = [supplier EXCEPT
              !.sup = r.sup,
              !.returned = r.stream,
              !.calls = @ + 1]
    /\ UNCHANGED <<mainvars, runtime, divvied, uri_provider, timed, traffic,
                   stream, launch, conditions, delta, sampled, s3>>

\* perpetual_stream.rs 186-211: new_stream_with_checksum
NewStreamWithChecksum(checksum) ==
    /\ supplier.calls < MaxSupplierCalls
    /\ LET sup == supplier.sup
           r == SupplierNewStreamWithChecksum(sup, checksum,
                    supplier.cache_line_size, supplier.CHUNK_SIZE)
       IN supplier' = [supplier EXCEPT
              !.sup = r.sup,
              !.returned = r.stream,
              !.calls = @ + 1,
              !.digests = @ + 1,
              !.last = [stream |-> r.stream,
                        digest |-> r.digest,
                        key |-> [checksum |-> checksum, offset |-> sup.offset,
                                 len |-> sup.len]],
              !.given = @ \cup {<<[checksum |-> checksum, offset |-> sup.offset,
                                   len |-> sup.len], r.digest>>}]
    /\ UNCHANGED <<mainvars, runtime, divvied, uri_provider, timed, traffic,
                   stream, launch, conditions, delta, sampled, s3>>

SupplierNext ==
    \/ NewStream
    \/ \E checksum \in Checksum : NewStreamWithChecksum(checksum)

SupplierSpec == SupplierInit /\ [][SupplierNext]_vars

\* ------------------------- main.rs, cmd/run.rs, worker.rs: from main to exit
MaxLaunchThreads == 2       \* --threads is 1..MaxLaunchThreads
MaxLaunchConnections == 3   \* --connections is 1..MaxLaunchConnections

\* cli.rs 52-55: --url is any string
Urls == {"http://host:8080/", "http://host:80/", "http://host/", "http://ho st/"}

\* worker.rs 76: url.parse::<Uri>(), and the port of the Uri
UriParse(url) ==
    CASE url = "http://host:8080/" -> [ok |-> TRUE, host |-> "host", port |-> 8080]
      [] url = "http://host:80/" -> [ok |-> TRUE, host |-> "host", port |-> 80]
      [] url = "http://host/" -> [ok |-> TRUE, host |-> "host", port |-> Unset]
      [] OTHER -> [ok |-> FALSE, host |-> "", port |-> Unset]

\* a main that starts the run whatever the counts are
ConfigOkAlways(args) == args.connections >= 0

\* main.rs 29-35
ConfigOk(args) == ~(args.connections < args.threads)

LaunchWorkers(args) == 0..(args.threads - 1)

\* run.rs 60-64: the connections of every worker
LaunchConns(args) ==
    {c \in LaunchWorkers(args) \X (0..(args.connections - 1)) :
        c[2] < Divvy(args.connections, args.threads)[c[1]]}

\* connection.rs 64
PortU16OrDefault(uri) == IF uri.port = Unset THEN 80 ELSE uri.port

LaunchInit ==
    /\ Parked
    /\ launch \in
           {[args |-> a, at |-> "main", exit_code |-> Unset,
             worker |-> [w \in LaunchWorkers(a) |-> "none"],
             pc |-> [c \in LaunchConns(a) |-> "none"],
             port |-> [c \in LaunchConns(a) |-> Unset],
             sent |-> [c \in LaunchConns(a) |-> 0]] :
                a \in [threads : 1..MaxLaunchThreads,
                       connections : 1..MaxLaunchConnections,
                       url : Urls, engine : {"Simple", "S3"}]}
    /\ runtime = None /\ divvied = None /\ uri_provider = None /\ timed = None
    /\ traffic = None /\ stream = None /\ supplier = None /\ conditions = None
    /\ delta = None /\ sampled = None /\ s3 = None

\* main.rs 28-37 and run.rs 27-78: main bails out (exit code 1) or run()
\* starts every worker thread
Main ==
    /\ launch.at = "main"
    /\ IF ConfigOk(launch.args)
       THEN launch' = [launch EXCEPT
                !.at = "run",
                !.worker = [w \in LaunchWorkers(launch.args) |-> "running"]]
       ELSE launch' = [launch EXCEPT !.at = "exit", !.exit_code = 1]
    /\ UNCHANGED <<mainvars, runtime, divvied, uri_provider, timed, traffic,
                   stream, supplier, conditions, delta, sampled, s3>>

\* worker.rs 75-114: the Uri is parsed once per connection, before its task
\* is spawned; a parse error ends Worker::run at the first connection
LaunchWorkerSpawn(w) ==
    /\ launch.at = "run" /\ launch.worker[w] = "running"
    /\ \A c \in LaunchConns(launch.args) : c[1] = w => launch.pc[c] = "none"
    /\ \E c \in LaunchConns(launch.args) : c[1] = w
    /\ IF UriParse(launch.args.url).ok
       THEN launch' = [launch EXCEPT
                !.pc = [c \in LaunchConns(launch.args) |->
                           IF c[1] = w THEN "spawned" ELSE launch.pc[c]]]
       ELSE launch' = [launch EXCEPT !.worker[w] = "err"]
    /\ UNCHANGED <<mainvars, runtime, divvied, uri_provider, timed, traffic,
                   stream, supplier, conditions, delta, sampled, s3>>

\* worker.rs 104-111, 166-188, 191-243 and connection.rs 55-57: the engine
\* is built and set up and the task reaches the barrier; run_s3_engine
\* unwraps url.port() (worker.rs 207) and panics without one
LaunchRunEngine(c) ==
    /\ launch.at = "run" /\ launch.worker[c[1]] = "running"
    /\ launch.pc[c] = "spawned"
    /\ launch' = [launch EXCEPT
           !.pc[c] = IF launch.args.engine = "S3"
                        /\ UriParse(launch.args.url).port = Unset
                     THEN "failed" ELSE "barrier"]
    /\ UNCHANGED <<mainvars, runtime, divvied, uri_provider, timed, traffic,
                   stream, supplier, conditions, delta, sampled, s3>>

\* connection.rs 57-78: past the barrier, TcpStream::connect to host:port
LaunchConnect(c) ==
    /\ launch.at = "run" /\ launch.worker[c[1]] = "running"
    /\ launch.pc[c] = "barrier"
    /\ \A d \in LaunchConns(launch.args) :
           d[1] = c[1] => launch.pc[d] \in {"barrier", "connected", "done"}
    /\ launch' = [launch EXCEPT
           !.pc[c] = "connected",
           !.port[c] = PortU16OrDefault(UriParse(launch.args.url))]
    /\ UNCHANGED <<mainvars, runtime, divvied, uri_provider, timed, traffic,
                   stream, supplier, conditions, delta, sampled, s3>>

\* connection.rs 80-125: the request loop, one request here, then cleanup
LaunchRequests(c) ==
    /\ launch.at = "run" /\ launch.worker[c[1]] = "running"
    /\ launch.pc[c] = "connected"
    /\ launch' = [launch EXCEPT !.pc[c] = "done", !.sent[c] = @ + 1]
    /\ UNCHANGED <<mainvars, runtime, divvied, uri_provider, timed, traffic,
                   stream, supplier, conditions, delta, sampled, s3>>

\* worker.rs 116-127: every handle gave Ok, or `h.await??` returns the
\* first failure in index order and the tasks left are dropped
LaunchWorkerReturn(w) ==
    /\ launch.at = "run" /\ launch.worker[w] = "running"
    /\ LET mine == {c \in LaunchConns(launch.args) : c[1] = w}
           failed == {c \in mine :
                         /\ launch.pc[c] = "failed"
                         /\ \A d \in mine : d[2] < c[2] => launch.pc[d] = "done"}
       IN /\ mine = {} \/ \A c \in mine : launch.pc[c] # "none"
          /\ \/ /\ \A c \in mine : launch.pc[c] = "done"
                /\ launch' = [launch EXCEPT !.worker[w] = "ok"]
             \/ /\ failed # {}
                /\ launch' = [launch EXCEPT
                       !.worker[w] = "err",
                       !.pc = [c \in LaunchConns(launch.args) |->
                                  IF c[1] = w /\ launch.pc[c] \notin {"done", "failed"}
                                  THEN "aborted" ELSE launch.pc[c]]]
    /\ UNCHANGED <<mainvars, runtime, divvied, uri_provider, timed, traffic,
                   stream, supplier, conditions, delta, sampled, s3>>

\* run.rs 83-113: join; exit(1) when no worker returned a WorkerInfo
LaunchJoin ==
    /\ launch.at = "run"
    /\ \A w \in LaunchWorkers(launch.args) : launch.worker[w] \in {"ok", "err"}
    /\ launch' = [launch EXCEPT
           !.at = "exit",
           !.exit_code = IF \E w \in LaunchWorkers(launch.args) :
                                 launch.worker[w] = "ok"
                         THEN 0 ELSE 1]
    /\ UNCHANGED <<mainvars, runtime, divvied, uri_provider, timed, traffic,
                   stream, supplier, conditions, delta, sampled, s3>>

LaunchNext ==
    \/ Main
    \/ \E w \in LaunchWorkers(launch.args) : LaunchWorkerSpawn(w)
    \/ \E c \in LaunchConns(launch.args) : LaunchRunEngine(c)
    \/ \E c \in LaunchConns(launch.args) : LaunchConnect(c)
    \/ \E c \in LaunchConns(launch.args) : LaunchRequests(c)
    \/ \E w \in LaunchWorkers(launch.args) : LaunchWorkerReturn(w)
    \/ LaunchJoin

LaunchSpec == LaunchInit /\ [][LaunchNext]_vars

\* ------------------ cmd/run.rs, worker.rs: dealing out completion conditions
MaxCondThreads == 3         \* --threads is 1..MaxCondThreads
MaxCondConnections == 5     \* --connections is threads..MaxCondConnections
MaxCondRequests == 9        \* --num-requests is 0..MaxCondRequests

\* run.rs 46-58: one Option<CompletionCondition> per worker
CompletionConditions(args) ==
    [w \in 0..(args.threads - 1) |->
        CASE args.completion.kind = "NumRequests" ->
                 [kind |-> "NumRequests",
                  n |-> Divvy(args.completion.n, args.threads)[w]]
          [] args.completion.kind = "Duration" ->
                 [kind |-> "Duration", n |-> args.completion.n]
          [] OTHER -> [kind |-> "None", n |-> 0]]

\* a worker that hands its whole share to each of its connections
ConnectionConditionsWhole(completion_condition, num_connections) ==
    [i \in 0..(num_connections - 1) |-> completion_condition]

\* worker.rs 60-73: one Option<CompletionCondition> per connection
ConnectionConditions(completion_condition, num_connections) ==
    [i \in 0..(num_connections - 1) |->
        IF completion_condition.kind = "NumRequests"
        THEN [kind |-> "NumRequests",
              n |-> Divvy(completion_condition.n, num_connections)[i]]
        ELSE completion_condition]

ConditionsInit ==
    /\ Parked
    /\ conditions \in
           {[args |-> [threads |-> t, connections |-> c, completion |-> k],
             called |-> FALSE, workers |-> <<>>, conns |-> <<>>] :
                t \in 1..MaxCondThreads, c \in 1..MaxCondConnections,
                k \in {[kind |-> "NumRequests", n |-> r] : r \in 0..MaxCondRequests}
                      \cup {[kind |-> "Duration", n |-> d] : d \in 1..MaxDuration}
                      \cup {[kind |-> "None", n |-> 0]}}
    /\ ConfigOk(conditions.args)
    /\ runtime = None /\ divvied = None /\ uri_provider = None /\ timed = None
    /\ traffic = None /\ stream = None /\ supplier = None /\ launch = None
    /\ delta = None /\ sampled = None /\ s3 = None

\* run.rs 46-78 with worker.rs 60-75: every worker gets its condition and
\* its number of connections, and deals the condition out to them
StartWorkers ==
    /\ ~conditions.called
    /\ LET a == conditions.args
           ws == CompletionConditions(a)
       IN conditions' = [conditions EXCEPT
              !.called = TRUE,
              !.workers = ws,
              !.conns = [w \in 0..(a.threads - 1) |->
                            ConnectionConditions(ws[w],
                                Divvy(a.connections, a.threads)[w])]]
    /\ UNCHANGED <<mainvars, runtime, divvied, uri_provider, timed, traffic,
                   stream, supplier, launch, delta, sampled, s3>>

ConditionsNext == StartWorkers

ConditionsSpec == ConditionsInit /\ [][ConditionsNext]_vars

\* ---------------------------------------------------- stats.rs: changed
DeltaInit ==
    /\ Parked
    /\ delta \in {[prev |-> p, curr |-> c, called |-> FALSE, out |-> 0] :
                     p \in 0..UsizeMax, c \in 0..UsizeMax}
    /\ runtime = None /\ divvied = None /\ uri_provider = None /\ timed = None
    /\ traffic = None /\ stream = None /\ supplier = None /\ launch = None
    /\ conditions = None /\ sampled = None /\ s3 = None

\* stats.rs 175: changed(since.requests_issued, self.requests_issued)
ChangedCall ==
    /\ ~delta.called
    /\ delta' = [delta EXCEPT !.called = TRUE,
                              !.out = Changed(delta.prev, delta.curr)]
    /\ UNCHANGED <<mainvars, runtime, divvied, uri_provider, timed, traffic,
                   stream, supplier, launch, conditions, sampled, s3>>

DeltaNext == ChangedCall

DeltaSpec == DeltaInit /\ [][DeltaNext]_vars

\* ------------------- connection/stats.rs and cmd/run.rs: instant_stats
SampledConns == 2   \* connections of the worker
MaxUpdates == 3     \* after_response calls of the worker
MaxSamples == 2     \* samples the runner takes
MaxReqSize == 2     \* the declared request size is 1..MaxReqSize
RespLens == {0, 3}  \* response lengths

\* a read guard handed out whatever the lock's state
CanReadAlways(lock) == TRUE

\* run.rs 200: blocking_read() returns once no write guard is held
CanRead(lock) == lock.writer = 0

\* connection/stats.rs 43: write().await returns once no guard is held
CanWrite(lock) == lock.writer = 0 /\ lock.readers = 0

SampledInit ==
    /\ Parked
    /\ sampled \in
           {[lock |-> [writer |-> 0, readers |-> 0],
             instant_stats |-> InstantStatsDefault,
             req_size |-> l,
             wpc |-> [i \in 1..SampledConns |-> "idle"],
             resp |-> [i \in 1..SampledConns |-> <<200, 0>>],
             updates |-> 0,
             committed |-> InstantStatsDefault,
             rpc |-> "idle",
             b |-> InstantStatsDefault,
             at_acquire |-> InstantStatsDefault,
             samples |-> 0] : l \in 1..MaxReqSize}
    /\ runtime = None /\ divvied = None /\ uri_provider = None /\ timed = None
    /\ traffic = None /\ stream = None /\ supplier = None /\ launch = None
    /\ conditions = None /\ delta = None /\ s3 = None

\* connection/stats.rs 43: after_response of connection i takes the write
\* guard; the response is a status and a length
StatsWriteAcquire(i) ==
    /\ sampled.wpc[i] = "idle" /\ sampled.updates < MaxUpdates
    /\ CanWrite(sampled.lock)
    /\ \E status \in {200, 404}, resp_len \in RespLens :
        sampled' = [sampled EXCEPT
            !.lock.writer = i,
            !.resp[i] = <<status, resp_len>>,
            !.updates = @ + 1,
            !.wpc[i] = IF IsSuccess(status) THEN "requests_issued" ELSE "drop"]
    /\ UNCHANGED <<mainvars, runtime, divvied, uri_provider, timed, traffic,
                   stream, supplier, launch, conditions, delta, s3>>

\* connection/stats.rs 56
StatsRequestsIssued(i) ==
    /\ sampled.wpc[i] = "requests_issued"
    /\ sampled' = [sampled EXCEPT !.instant_stats.requests_issued = @ + 1,
                                  !.wpc[i] = "bytes_written"]
    /\ UNCHANGED <<mainvars, runtime, divvied, uri_provider, timed, traffic,
                   stream, supplier, launch, conditions, delta, s3>>

\* connection/stats.rs 57
StatsBytesWritten(i) ==
    /\ sampled.wpc[i] = "bytes_written"
    /\ sampled' = [sampled EXCEPT
           !.instant_stats.bytes_written = @ + sampled.req_size,
           !.wpc[i] = "bytes_read"]
    /\ UNCHANGED <<mainvars, runtime, divvied, uri_provider, timed, traffic,
                   stream, supplier, launch, conditions, delta, s3>>

\* connection/stats.rs 58
StatsBytesRead(i) ==
    /\ sampled.wpc[i] = "bytes_read"
    /\ sampled' = [sampled EXCEPT
           !.instant_stats.bytes_read = @ + sampled.resp[i][2],
           !.wpc[i] = "drop"]
    /\ UNCHANGED <<mainvars, runtime, divvied, uri_provider, timed, traffic,
                   stream, supplier, launch, conditions, delta, s3>>

\* connection/stats.rs 67: drop(guard)
StatsWriteRelease(i) ==
    /\ sampled.wpc[i] = "drop"
    /\ sampled' = [sampled EXCEPT !.lock.writer = 0,
                                  !.committed = sampled.instant_stats,
                                  !.wpc[i] = "idle"]
    /\ UNCHANGED <<mainvars, runtime, divvied, uri_provider, timed, traffic,
                   stream, supplier, launch, conditions, delta, s3>>

\* run.rs 200: sum_instant_stats takes the read guard of the worker
SampleAcquire ==
    /\ sampled.rpc = "idle" /\ sampled.samples < MaxSamples
    /\ CanRead(sampled.lock)
    /\ sampled' = [sampled EXCEPT !.lock.readers = @ + 1,
                                  !.at_acquire = sampled.committed,
                                  !.rpc = "requests_issued"]
    /\ UNCHANGED <<mainvars, runtime, divvied, uri_provider, timed, traffic,
                   stream, supplier, launch, conditions, delta, s3>>

\* run.rs 202
SampleRequestsIssued ==
    /\ sampled.rpc = "requests_issued"
    /\ sampled' = [sampled EXCEPT
           !.b.requests_issued = sampled.instant_stats.requests_issued,
           !.rpc = "bytes_written"]
    /\ UNCHANGED <<mainvars, runtime, divvied, uri_provider, timed, traffic,
                   stream, supplier, launch, conditions, delta, s3>>

\* run.rs 203
SampleBytesWritten ==
    /\ sampled.rpc = "bytes_written"
    /\ sampled' = [sampled EXCEPT
           !.b.bytes_written = sampled.instant_stats.bytes_written,
           !.rpc = "bytes_read"]
    /\ UNCHANGED <<mainvars, runtime, divvied, uri_provider, timed, traffic,
                   stream, supplier, launch, conditions, delta, s3>>

\* run.rs 204-206: the last field is copied and the guard dropped
SampleBytesRead ==
    /\ sampled.rpc = "bytes_read"
    /\ sampled' = [sampled EXCEPT
           !.b.bytes_read = sampled.instant_stats.bytes_read,
           !.lock.readers = @ - 1,
           !.samples = @ + 1,
           !.rpc = "idle"]
    /\ UNCHANGED <<mainvars, runtime, divvied, uri_provider, timed, traffic,
                   stream, supplier, launch, conditions, delta, s3>>

SampledNext ==
    \/ \E i \in 1..SampledConns :
        \/ StatsWriteAcquire(i)
        \/ StatsRequestsIssued(i)
        \/ StatsBytesWritten(i)
        \/ StatsBytesRead(i)
        \/ StatsWriteRelease(i)
    \/ SampleAcquire
    \/ SampleRequestsIssued
    \/ SampleBytesWritten
    \/ SampleBytesRead

SampledSpec == SampledInit /\ [][SampledNext]_vars

\* ------------------------------------------------ engine/s3.rs: S3Engine
MaxS3Requests == 4  \* calls to S3Engine::request

\* Option<T>: None is <<>>, Some(x) is <<x>>
Some(x) == <<x>>

\* the body of a GET: a stream without bytes, the supplier left as it is
SupplierEmpty(sup) ==
    [stream |-> PerpetualByteStreamNew(<<>>, 0, 0), sup |-> sup]

\* s3.rs 94-100
ChecksumHeader(c) ==
    CASE c = "Md5" -> "Content-MD5"
      [] c = "Crc32c" -> "x-amz-checksum-crc32c"

\* s3.rs 48-63: S3Engine::new
S3EngineNew(stream_supplier, uri_supplier, object_size, checksum_algo, pattern) ==
    [stream_supplier |-> stream_supplier,
     object_size |-> object_size,
     checksum_algo |-> checksum_algo,
     traffic_cop |-> TrafficStateMachineNew(pattern, uri_supplier),
     last_traffic_state |-> <<>>]

\* an engine that takes a data stream from the supplier for a GET as well
S3RequestStreamForGet(e, cls, CHUNK_SIZE) ==
    LET t == TrafficCopNext(e.traffic_cop)
        r == SupplierNewStream(e.stream_supplier, cls)
    IN [engine |-> [e EXCEPT !.traffic_cop = t.machine,
                             !.last_traffic_state = Some(t.state),
                             !.stream_supplier = r.sup],
        req |-> [method |-> IF t.state.kind = "Put" THEN "PUT" ELSE "GET",
                 uri |-> t.state.uri,
                 headers |-> {<<"Content-Length", e.object_size>>},
                 body |-> r.stream],
        size |-> IF t.state.kind = "Put" THEN e.object_size ELSE 0]

\* s3.rs 82-129: S3Engine::request, the engine after the call, the request
\* and its declared size
S3Request(e, cls, CHUNK_SIZE) ==
    LET t == TrafficCopNext(e.traffic_cop)
        e1 == [e EXCEPT !.traffic_cop = t.machine,
                        !.last_traffic_state = Some(t.state)]
    IN IF t.state.kind = "Put"
       THEN LET plain == SupplierNewStream(e.stream_supplier, cls)
                summed == SupplierNewStreamWithChecksum(e.stream_supplier,
                              IF e.checksum_algo = <<>> THEN "Md5"
                              ELSE e.checksum_algo[1], cls, CHUNK_SIZE)
                none == e.checksum_algo = <<>>
            IN [engine |-> [e1 EXCEPT !.stream_supplier =
                                IF none THEN plain.sup ELSE summed.sup],
                req |-> [method |-> "PUT",
                         uri |-> t.state.uri,
                         headers |->
                             (IF none THEN {}
                              ELSE {<<ChecksumHeader(e.checksum_algo[1]),
                                      summed.digest>>})
                             \cup {<<"User-Agent", "user_agent">>,
                                   <<"Content-Type", "application/octet-stream">>,
                                   <<"Content-Length", e.object_size>>,
                                   <<"X-Amz-Date", "now">>},
                         body |-> IF none THEN plain.stream ELSE summed.stream],
                size |-> e.object_size]
       ELSE LET r == SupplierEmpty(e.stream_supplier)
            IN [engine |-> [e1 EXCEPT !.stream_supplier = r.sup],
                req |-> [method |-> "GET",
                         uri |-> t.state.uri,
                         headers |-> {<<"Accept", "application/octet-stream">>},
                         body |-> r.stream],
                size |-> 0]

\* worker.rs 209-241: the engine of a connection, its supplier at offset 0
\* with len = object_size, warmed for the configured algorithm if any
S3Init ==
    /\ Parked
    /\ s3 \in
           {[engine |-> S3EngineNew(
                            PerpetualByteStreamSupplierNew(Buffer(n), 0,
                                object_size, algo, cls, c),
                            UriProviderNew(d, objs, b), object_size, algo, pat),
             cache_line_size |-> cls, CHUNK_SIZE |-> c,
             pattern |-> pat,
             new |-> [depth |-> d, num_objs |-> objs, num_branch_per_depth |-> b],
             requests |-> <<>>] :
                n \in 1..MaxBufLen, object_size \in 0..MaxSupplierLen,
                cls \in 1..MaxCacheLine, c \in {1, MaxChunkSize},
                algo \in {<<>>, <<"Md5">>, <<"Crc32c">>},
                pat \in TrafficPattern,
                d \in 0..MaxDepth, objs \in 1..MaxNumObjs, b \in {1, MaxBranches}}
    /\ runtime = None /\ divvied = None /\ uri_provider = None /\ timed = None
    /\ traffic = None /\ stream = None /\ supplier = None /\ launch = None
    /\ conditions = None /\ delta = None /\ sampled = None

\* connection.rs 95-96: engine.request(req) in the request loop
S3EngineRequest ==
    /\ Len(s3.requests) < MaxS3Requests
    /\ LET r == S3Request(s3.engine, s3.cache_line_size, s3.CHUNK_SIZE)
       IN s3' = [s3 EXCEPT !.engine = r.engine,
                           !.requests = Append(@, [req |-> r.req, size |-> r.size])]
    /\ UNCHANGED <<mainvars, runtime, divvied, uri_provider, timed, traffic,
                   stream, supplier, launch, conditions, delta, sampled>>

S3Next == S3EngineRequest

S3Spec == S3Init /\ [][S3Next]_vars

\* ============================================================== claims
ErrorCount(st) == SumOver(DOMAIN st.errors, st.errors)

\* responses handled by the stats collectors of all workers
HandledByCollectors ==
    SumOver(Workers, [w \in Workers |-> stats[w].requests_issued + ErrorCount(stats[w])])

AllDone == \A c \in Conns : pc[c] = "done"

QuotaRespected ==
    /\ HandledByCollectors <= cfg.num_requests
    /\ \A c \in Conns : issued[c] <= Quota(c)

\* C1 (as stated): in a request-count run of R requests the collectors never
\* handle more than R responses, no connection starts more requests than its
\* quota, and once every connection has stopped without an error exactly R
\* responses were handled.
C1_ExactlyRWhenStopped ==
    cfg.mode = "NumRequests" =>
        /\ QuotaRespected
        /\ AllDone => HandledByCollectors = cfg.num_requests

\* C1 (amended): as above, but exactly R responses are handled only if, in
\* addition, the global run flag was never cleared (no Ctrl-C).
C1_RequestCount ==
    cfg.mode = "NumRequests" =>
        /\ QuotaRespected
        /\ (AllDone /\ run_flag) => HandledByCollectors = cfg.num_requests

C1_Witness ==
    /\ cfg.mode = "NumRequests" /\ AllDone /\ run_flag
    /\ cfg.num_requests >= 2
    /\ HandledByCollectors = cfg.num_requests
    /\ \E c \in Conns : Quota(c) = 0
    /\ \E w \in Workers : stats[w].requests_issued > 0
    /\ \E w \in Workers : ErrorCount(stats[w]) > 0

\* the task of c has gone past setup_barrier.wait()
PastBarrier(c) ==
    \/ pc[c] \in {"loop", "checked", "send", "done"}
    \/ issued[c] > 0
    \/ \E k \in 1..Len(log[c]) : log[c][k][1] \in {"after_setup", "connect"}

\* C2: on one worker no connection calls after_setup, connects or issues a
\* request before every connection of that worker has returned from
\* engine.setup() and reached the barrier; connections of other workers are
\* not waited for (the witness).
C2_SetupBarrier ==
    \A c \in Conns :
        (PastBarrier(c) \/ timer[c[1]] # "none") =>
            /\ arrived[c[1]] = NumConnections[c[1]]
            /\ \A d \in ConnsOf(c[1]) : pc[d] # "spawned"

C2_Witness ==
    \E c, d \in Conns :
        /\ c[1] # d[1]
        /\ NumConnections[c[1]] >= 2
        /\ issued[c] > 0
        /\ pc[d] = "spawned"

\* the order of lifecycle calls the claim gives for one iteration
IterationOrder ==
    <<"should_issue_request", "engine.request", "before_request", "send_request",
      "after_request", "engine.response", "after_response">>

HookPhases == {"after_setup", "should_issue_request", "before_request",
               "after_request", "after_response"}

RECURSIVE ExpectedCalls(_, _)
ExpectedCalls(n, phases) ==
    IF phases = <<>> THEN <<>>
    ELSE (IF Head(phases) \in HookPhases
          THEN [k \in 1..n |-> <<Head(phases), k, TRUE>>]
          ELSE <<<<Head(phases), 0, TRUE>>>>)
         \o ExpectedCalls(n, Tail(phases))

ExpectedIteration(c) == ExpectedCalls(Len(Chain(c)), IterationOrder)

ExpectedSetup(c) ==
    ExpectedCalls(Len(Chain(c)), <<"engine.setup", "after_setup", "connect">>)

\* an iteration that a hook's should_issue_request ended: hooks 1..j were
\* asked in order and only the last one answered false
Denied(c) ==
    {[k \in 1..j |-> <<"should_issue_request", k, k # j>>] : j \in 1..Len(Chain(c))}

\* C3: within one connection the calls of an iteration come in the order
\* should_issue_request, engine.request, before_request, send, after_request,
\* engine.response, after_response, the hooks in chain order; an iteration
\* starts only when the one before is complete, the first one after after_setup.
C3_HookOrder ==
    \A c \in Conns :
        CASE pc[c] = "loop" ->
                log[c] \in {ExpectedSetup(c), ExpectedIteration(c)} \cup Denied(c)
          [] pc[c] = "send" ->
                log[c] = SubSeq(ExpectedIteration(c), 1, 2 * Len(Chain(c)) + 1)
          [] pc[c] = "barrier" -> log[c] = SubSeq(ExpectedSetup(c), 1, 1)
          [] OTHER -> log[c] = <<>>

C3_Witness ==
    \E c \in Conns :
        /\ Len(Chain(c)) = 3
        /\ pc[c] = "loop"
        /\ log[c] = ExpectedIteration(c)
        /\ issued[c] = 1

\* C4: cancellation is seen only at the head of the loop: a connection that
\* has started a request carries it through after_response unless its own
\* engine or transport fails, whatever happens to the flag, and once the flag
\* is cleared a connection starts at most one further request.
C4_NoRequestCutOff ==
    /\ [](\A c \in Conns : issued_after_clear[c] <= 1)
    /\ [][\A c \in Conns :
            pc[c] = "send" =>
                \/ pc'[c] = "send"
                \/ pc'[c] = "failed"
                \/ pc'[c] = "loop" /\ log'[c] = ExpectedIteration(c)]_vars

\* C6: an error on one connection ends only that connection: when the worker
\* is through, every other connection of it has run to its own end and its
\* ConnectionRunInfo is in what the worker reports.
C6_OnlyThatConnection ==
    \A w \in Workers :
        wres[w] # "running" =>
            \A c \in ConnsOf(w) :
                /\ pc[c] \in {"done", "failed"}
                /\ pc[c] = "done" =>
                       \E k \in 1..Len(run_infos[w]) : run_infos[w][k] = c[2]

TwoXX == {r \in Responses : r[1] \in 200..299}

HandledOf(w, S) == SumOver(S, handled[w])

\* C8: in every state of a worker's WorkerStats both histograms hold as many
\* samples as requests_issued, which is the number of 2xx responses handled;
\* errors[status] is the number of responses handled with that non-2xx
\* status (no entry if none); bytes_written and bytes_read are the declared
\* sizes and the drained lengths of the 2xx responses only.
C8_WorkerStats ==
    \A w \in Workers :
        LET st == stats[w] IN
        /\ st.rtt_latency_hist = HandledOf(w, TwoXX)
        /\ st.ttfb_latency_hist = HandledOf(w, TwoXX)
        /\ st.requests_issued = HandledOf(w, TwoXX)
        /\ st.bytes_written = BodyLen * HandledOf(w, TwoXX)
        /\ st.bytes_read = SumOver(TwoXX, [r \in TwoXX |-> r[2] * handled[w][r]])
        /\ DOMAIN st.errors =
               {r[1] : r \in {x \in Responses \ TwoXX : handled[w][x] > 0}}
        /\ \A r \in Responses \ TwoXX :
               handled[w][r] > 0 => st.errors[r[1]] = handled[w][r]

C8_Witness ==
    \E w \in Workers :
        /\ \E r \in TwoXX : handled[w][r] > 0 /\ r[2] > 0
        /\ \E r \in Responses \ TwoXX : handled[w][r] > 0

\* a request-count run against the stub that always answers 204 has ended
\* with every request answered
NoContentRunEnded ==
    /\ cfg.mode = "NumRequests" /\ cfg.stub = {<<204, 0>>}
    /\ rpc = "done" /\ run_flag
    /\ \A w \in Workers : wres[w] = "ok"

\* C9 (as stated): at the end of a request-count run of R requests, all
\* answered 204, requests issued plus errors is R, the aggregated error map
\* is {204: R} and the RTT histogram is empty.
C9_NoContentIsError ==
    NoContentRunEnded =>
        /\ HandledByCollectors = cfg.num_requests
        /\ summary.run_stats.errors = (204 :> cfg.num_requests)
        /\ summary.run_stats.rtt_latency_hist = 0

\* C9 (amended): ... requests issued plus errors is R, the aggregated error
\* map is empty and the RTT histogram holds R samples (204 is a success).
C9_NoContentIsSuccess ==
    NoContentRunEnded =>
        /\ HandledByCollectors = cfg.num_requests
        /\ summary.run_stats.errors = EmptyMap
        /\ summary.run_stats.rtt_latency_hist = cfg.num_requests

C9_Witness ==
    /\ NoContentRunEnded
    /\ cfg.num_requests = 2
    /\ summary.run_stats.rtt_latency_hist = 2

\* C10: when the run ends the totals handed to the summary are the final
\* sums of all workers' instant_stats, whatever the interleaving of worker
\* progress, worker completion, flag clearing and runner ticks (stated here
\* for the runs in which every worker returned Ok).
C10_TotalsAreFinal ==
    (rpc = "done" /\ \A v \in Workers : wres[v] = "ok") =>
        /\ summary.requests_issued =
               SumOver(Workers, [w \in Workers |-> stats[w].requests_issued])
        /\ summary.bytes_written =
               SumOver(Workers, [w \in Workers |-> stats[w].bytes_written])
        /\ summary.bytes_read =
               SumOver(Workers, [w \in Workers |-> stats[w].bytes_read])

\* C5: once the global run flag has been cleared the run comes to its end:
\* from no reachable state with the flag cleared (connections in setup, at
\* the barrier or failed included) is the program left with nothing more it
\* can do short of the runner's join having returned.
C5_StopsAfterClear ==
    ~run_flag => (rpc \in {"done", "exit"} \/ ENABLED Next)

\* C7: a failed connection task surfaces as the worker's error: the program
\* never comes to rest with a task failed and its worker still not returned;
\* and a worker that returns Ok reports one ConnectionRunInfo per
\* connection, in connection-index order.
C7_TaskFailureSurfaces ==
    /\ (\E c \in Conns : pc[c] = "failed" /\ wres[c[1]] = "running")
           => ENABLED Next
    /\ \A w \in Workers :
           wres[w] = "ok" =>
               run_infos[w] = [k \in 1..NumConnections[w] |-> k - 1]

\* every ConnectionRunInfo of the workers that returned Ok
AllRunInfos(infos) ==
    UNION {{infos[i].run_infos[k] : k \in 1..Len(infos[i].run_infos)} :
              i \in 1..Len(infos)}

\* C11: the total runtime is the latest end_time minus the earliest
\* start_time over the ConnectionRunInfo of all workers that returned
\* successfully, whatever the number and the order of the workers.
C11_TotalRuntime ==
    runtime.called =>
        LET all == AllRunInfos(runtime.infos)
            latest == CHOOSE e \in {x.end_time : x \in all} :
                          \A y \in all : y.end_time <= e
            earliest == CHOOSE b \in {x.start_time : x \in all} :
                            \A y \in all : b <= y.start_time
        IN runtime.total_runtime = latest - earliest

\* C12: the run exits non-zero exactly if no worker returned a WorkerInfo;
\* if at least one did, the failed workers are skipped, the summary is
\* emitted and the exit is 0.
C12_ExitCode ==
    /\ rpc = "exit" => \A w \in Workers : wres[w] = "err"
    /\ rpc = "done" =>
           /\ \E w \in Workers : wres[w] = "ok"
           /\ \A w \in Workers : wres[w] \in {"ok", "err"}
           /\ summary.run_stats = SummarizeWorkerStats(stats, Threads)

C12_Witness ==
    /\ rpc = "done"
    /\ \E w \in Workers : wres[w] = "err"
    /\ \E w \in Workers : wres[w] = "ok" /\ stats[w].requests_issued > 0

\* C13: a request-count hook that reaches its quota clears the local run
\* flag of its own connection only: the global flag and the flags, counters
\* and positions of all other connections are as before, and a connection's
\* local flag is only ever cleared by its own quota being used up.
C13_OnlyOwnConnection ==
    /\ [](\A c \in Conns :
            ~local_run[c] =>
                cfg.mode = "NumRequests" /\ num_requests[c] = Quota(c) + 1)
    /\ [][\A c \in Conns :
            (local_run[c] /\ ~local_run'[c]) =>
                /\ run_flag' = run_flag
                /\ \A d \in Conns \ {c} :
                       /\ local_run'[d] = local_run[d]
                       /\ num_requests'[d] = num_requests[d]
                       /\ pc'[d] = pc[d]
                       /\ issued'[d] = issued[d]]_vars

C13_Witness ==
    \E c, d, e \in Conns :
        /\ c[1] = d[1] /\ c # d /\ e[1] # c[1]
        /\ ~local_run[c] /\ pc[c] = "done"
        /\ local_run[d] /\ pc[d] = "send"
        /\ local_run[e] /\ pc[e] = "send"
        /\ run_flag

\* C14: under a duration condition one sleep timer is started per worker,
\* by connection 0 in after_setup, once (none in a request-count run); a
\* timer that fires clears the global run flag, which never becomes true
\* again, and with the flag cleared every connection that comes to its loop
\* check stops there, having started at most one request since.
C14_DurationTimer ==
    /\ [](\A w \in Workers :
            /\ timers_started[w] <= 1
            /\ timers_started[w] = 1 =>
                   cfg.mode = "Duration" /\ pc[<<w, 0>>] \notin {"spawned", "barrier"}
            /\ (cfg.mode = "Duration"
                /\ pc[<<w, 0>>] \in {"loop", "checked", "send", "done"}) =>
                   timers_started[w] = 1
            /\ timer[w] = "fired" => ~run_flag)
    /\ [](\A c \in Conns : issued_after_clear[c] <= 1)
    /\ [][~run_flag => ~run_flag']_vars
    /\ [][\A c \in Conns :
            (~run_flag /\ pc[c] = "loop" /\ pc'[c] # "loop") =>
                pc'[c] \in {"done", "aborted"}]_vars

C14_Witness ==
    /\ \E w \in Workers : timer[w] = "fired"
    /\ \A w \in Workers : timers_started[w] = 1
    /\ \E c, d \in Conns : pc[c] = "done" /\ pc[d] = "send"

\* C15: in a run ended by a duration condition D the time from the earliest
\* connection start_time to the clearing of the global run flag is at least
\* D and at most D plus one scheduler tick.
C15_DurationBound ==
    LET started == {i \in 0..(TimedConns - 1) :
                        timed.start_time[i] # Unset
                        /\ timed.start_time[i] <= timed.cleared_at}
    IN (timed.cleared_at # Unset /\ started # {}) =>
           LET earliest == CHOOSE t \in {timed.start_time[i] : i \in started} :
                               \A i \in started : t <= timed.start_time[i]
           IN /\ timed.cleared_at - earliest >= timed.duration_cond
              /\ timed.cleared_at - earliest <= timed.duration_cond + 1

RequestsSent == SumOver(Conns, issued)

\* the lifecycle calls of an iteration that the rate-limit hook ended
DeniedByLimiter(c) ==
    {l \in Denied(c) : Chain(c)[Len(l)] = "RateLimit"}

\* C16: with a rate limit, the one limiter is asked by all connections of
\* all workers; a connection sends a request only in an iteration in which
\* the limiter granted it a token, so the requests sent never exceed the
\* tokens granted; an iteration the limiter denies sends nothing, changes no
\* statistic and takes the connection back to the head of its loop.
C16_RateLimit ==
    /\ [](/\ cfg.rate_limit => RequestsSent <= tokens
          /\ ~cfg.rate_limit => tokens = 0)
    /\ [][\A c \in Conns :
            (cfg.rate_limit /\ pc[c] = "checked" /\ pc'[c] = "send") =>
                tokens' = tokens + 1]_vars
    /\ [][\A c \in Conns :
            (cfg.rate_limit /\ pc[c] = "checked" /\ pc'[c] = "loop"
             /\ tokens' = tokens) =>
                /\ log'[c] \in DeniedByLimiter(c)
                /\ issued' = issued /\ stats' = stats /\ handled' = handled
                /\ num_requests' = num_requests]_vars

C16_Witness ==
    /\ cfg.rate_limit
    /\ RequestsSent >= 2
    /\ tokens > RequestsSent
    /\ \E c \in Conns : pc[c] = "loop" /\ log[c] \in DeniedByLimiter(c)

\* C17: should_issue_request is asked in chain order and the first hook that
\* answers false ends the iteration: no later hook is asked (a quota hook
\* behind it does not count), engine.request is not called, nothing is sent,
\* no before_request, after_request or after_response is called, no
\* statistic changes, and the connection's next step is the run-flag check.
C17_FirstFalseEndsIteration ==
    /\ [][\A c \in Conns :
            (pc[c] = "checked" /\ pc'[c] = "loop") =>
                /\ log'[c] \in Denied(c)
                /\ Chain(c)[Len(log'[c])] # "RequestsCompletion" =>
                       num_requests' = num_requests /\ local_run' = local_run
                /\ issued' = issued /\ collector' = collector
                /\ stats' = stats /\ handled' = handled]_vars
    /\ [][\A c \in Conns :
            (pc[c] = "loop" /\ pc'[c] # "loop") =>
                pc'[c] \in {"checked", "done", "aborted"}]_vars

C17_Witness ==
    \E c \in Conns :
        /\ Len(Chain(c)) = 3 /\ Chain(c)[3] = "RequestsCompletion"
        /\ pc[c] = "loop" /\ log[c] \in DeniedByLimiter(c)
        /\ num_requests[c] = 0 /\ Quota(c) > 0

\* C18: a non-2xx response does not stop the connection: it is counted
\* under its status code and nowhere else, it has used one unit of the
\* connection's quota like a successful request (responses of either kind
\* never exceed the worker's share), and the connection goes back to the
\* head of its loop with its flag and counter as they were.
C18_ErrorResponseContinues ==
    /\ [](cfg.mode = "NumRequests" =>
            \A w \in Workers :
                stats[w].requests_issued + ErrorCount(stats[w])
                    <= WorkerCondition(w).n)
    /\ [][\A c \in Conns : \A r \in Responses \ TwoXX :
            (pc[c] = "send" /\ pc'[c] # "send"
             /\ handled'[c[1]][r] = handled[c[1]][r] + 1) =>
                /\ pc'[c] = "loop"
                /\ local_run'[c] = local_run[c]
                /\ num_requests'[c] = num_requests[c]
                /\ stats'[c[1]] =
                       [stats[c[1]] EXCEPT !.errors = MapAdd(@, r[1], 1)]]_vars

C18_Witness ==
    \E c \in Conns :
        /\ NumConnections[c[1]] = 1
        /\ handled[c[1]][<<404, 1>>] = 1
        /\ issued[c] = 1
        /\ pc[c] = "checked"

\* C19: divvy(N, k), N >= 0, k >= 1, yields exactly k values that sum to N,
\* each floor(N/k) or ceil(N/k), the first N mod k of them the larger ones;
\* so with N >= k every item gets at least 1.
C19_Divvy ==
    divvied.called =>
        LET n == divvied.to_divvy
            k == divvied.num_items
            out == divvied.out
            floor == n \div k
            ceil == IF n % k = 0 THEN floor ELSE floor + 1
        IN /\ DOMAIN out = 0..(k - 1)
           /\ SumOver(DOMAIN out, out) = n
           /\ \A i \in DOMAIN out : out[i] \in {floor, ceil}
           /\ \A i \in DOMAIN out : out[i] = ceil /\ ceil # floor <=> i < n % k
           /\ n >= k => \A i \in DOMAIN out : out[i] >= 1

C19_Witness ==
    /\ divvied.called
    /\ divvied.to_divvy = 11 /\ divvied.num_items = 4
    /\ divvied.out = (0 :> 3 @@ 1 :> 3 @@ 2 :> 3 @@ 3 :> 2)

RECURSIVE Pow(_, _)
Pow(b, e) == IF e = 0 THEN 1 ELSE b * Pow(b, e - 1)

\* the d digits of m in base b, most significant first
Digits(m, b, d) == [j \in 1..d |-> (m \div Pow(b, d - j)) % b]

RECURSIVE NthProvider(_, _)
NthProvider(new, i) ==
    IF i = 0
    THEN NextUri(UriProviderNew(new.depth, new.num_objs, new.num_branch_per_depth))
    ELSE NextUri(NthProvider(new, i - 1))

NthUri(new, i) == NthProvider(new, i).uri

\* C21: under pattern Both the states returned by next() alternate PUT, GET,
\* PUT, ... starting with a PUT; the GET at step 2i+1 carries the URI of the
\* PUT at step 2i, and the PUT at step 2i carries the i-th URI of the
\* provider, none skipped and none repeated.
C21_BothAlternates ==
    traffic.machine.pattern = "Both" =>
        \A k \in 1..Len(traffic.returned) :
            LET st == traffic.returned[k] IN
            IF k % 2 = 1
            THEN st.kind = "Put" /\ st.uri = NthUri(traffic.new, (k - 1) \div 2)
            ELSE st.kind = "Get" /\ st.uri = traffic.returned[k - 1].uri

C21_Witness ==
    /\ traffic.machine.pattern = "Both"
    /\ Len(traffic.returned) = 6
    /\ traffic.new = [depth |-> 1, num_objs |-> 2, num_branch_per_depth |-> 2]
    /\ traffic.returned[5].kind = "Put"
    /\ traffic.returned[5].uri.obj_cnt = 0
    /\ traffic.returned[5].uri.dir_prefix = <<1>>
    /\ traffic.returned[6].kind = "Get"

\* C22: under pattern Put (Get) the i-th call to next() returns a Put (Get)
\* state with the i-th URI of an identically constructed UriProvider; the
\* first call returns the state built at construction, and every call
\* returns the state stored before it while storing the next one.
C22_PutGetFollowProvider ==
    /\ [](traffic.machine.pattern \in {"Put", "Get"} =>
            /\ \A k \in 1..Len(traffic.returned) :
                   /\ traffic.returned[k].kind = traffic.machine.pattern
                   /\ traffic.returned[k].uri = NthUri(traffic.new, k - 1)
            /\ traffic.machine.state.kind = traffic.machine.pattern
            /\ traffic.machine.state.uri = NthUri(traffic.new, Len(traffic.returned)))
    /\ [][traffic.machine.pattern \in {"Put", "Get"} =>
            /\ traffic'.returned = Append(traffic.returned, traffic.machine.state)
            /\ traffic'.machine.state.uri
                   = NthUri(traffic.new, Len(traffic.returned) + 1)]_vars

C22_Witness ==
    /\ traffic.machine.pattern = "Get"
    /\ Len(traffic.returned) = 5
    /\ traffic.new = [depth |-> 2, num_objs |-> 1, num_branch_per_depth |-> 2]
    /\ traffic.returned[1].uri.dir_prefix = <<0, 0>>
    /\ traffic.returned[5].kind = "Get"
    /\ traffic.returned[5].uri.dir_prefix = <<0, 0>>
    /\ traffic.machine.state.uri.dir_prefix = <<0, 1>>


\* C23: for a buffer of n >= 1 bytes, a starting offset o < n and any len
\* and chunk size, the frames of a PerpetualByteStream put together are
\* exactly len bytes, the k-th of them buffer[(o + k) mod n]; the stream
\* ends after at most two frames per byte.
C23_PerpetualBytes ==
    LET n == Len(stream.s.inner) IN
    /\ Len(stream.out) <= stream.s.num_to_read
    /\ \A k \in 0..(Len(stream.out) - 1) :
           stream.out[k + 1] = stream.s.inner[((stream.starting_offset + k) % n) + 1]
    /\ stream.ended => Len(stream.out) = stream.s.num_to_read
    /\ stream.frames <= 2 * Len(stream.out) + 1
    /\ stream.s.num_read = Len(stream.out)

C23_Witness ==
    /\ stream.ended
    /\ Len(stream.s.inner) = 3 /\ stream.starting_offset = 2
    /\ stream.CHUNK_SIZE = 2
    /\ stream.out = <<2, 0, 1, 2, 0, 1, 2>>


\* the len bytes a stream over buf gives from offset o
StreamBytes(buf, o, len) == [k \in 1..len |-> buf[((o + k - 1) % Len(buf)) + 1]]

\* C24: new_stream_with_checksum(algo) returns, with the stream, the digest
\* under algo of exactly the bytes that stream gives; two calls at the same
\* (algo, offset, len) return the same digest; and the digest of a key is
\* computed at most once, later calls taking it from the cache.
C24_ChecksumOfStream ==
    LET sup == supplier.sup IN
    /\ supplier.digests > 0 =>
           LET l == supplier.last IN
           /\ l.stream = PerpetualByteStreamNew(sup.buf, l.key.offset, l.key.len)
           /\ l.digest = <<l.key.checksum,
                           HasherUpdate(l.key.checksum, HasherNew(l.key.checksum),
                               StreamBytes(sup.buf, l.key.offset, l.key.len))>>
    /\ \A p, q \in supplier.given : p[1] = q[1] => p[2] = q[2]
    /\ \A i, j \in 1..Len(sup.computed) : sup.computed[i] = sup.computed[j] => i = j
    /\ \A p \in supplier.given : p[1] \in DOMAIN sup.checksum_cache

C24_Witness ==
    /\ supplier.digests = 3 /\ supplier.calls = 4
    /\ Len(supplier.sup.buf) = 3 /\ supplier.cache_line_size = 3
    /\ supplier.sup.len = 2
    /\ supplier.last.key = [checksum |-> "Md5", offset |-> 1, len |-> 2]
    /\ Len(supplier.sup.computed) = 1
    /\ Cardinality(supplier.given) = 1


\* the errors with one status that the workers counted, added up
ErrorsWith(code) ==
    SumOver(Workers, [w \in Workers |->
                         IF code \in DOMAIN stats[w].errors
                         THEN stats[w].errors[code] ELSE 0])

\* C25: the aggregated RunStats of the summary hold, in each histogram, as
\* many samples as the histograms of all workers together, and an error map
\* whose keys are the statuses some worker counted, each with the sum of its
\* counts over all workers, those of a failed worker included.
C25_SummarizedStats ==
    rpc = "done" =>
        LET rs == summary.run_stats IN
        /\ rs.rtt_latency_hist
               = SumOver(Workers, [w \in Workers |-> stats[w].rtt_latency_hist])
        /\ rs.ttfb_latency_hist
               = SumOver(Workers, [w \in Workers |-> stats[w].ttfb_latency_hist])
        /\ DOMAIN rs.errors = UNION {DOMAIN stats[w].errors : w \in Workers}
        /\ \A code \in DOMAIN rs.errors : rs.errors[code] = ErrorsWith(code)

C25_Witness ==
    /\ rpc = "done"
    /\ wres[0] = "err" /\ wres[1] = "ok"
    /\ 404 \in DOMAIN stats[0].errors /\ stats[0].errors[404] = 1
    /\ 404 \in DOMAIN stats[1].errors /\ stats[1].errors[404] = 1
    /\ summary.run_stats.errors[404] = 2


\* the place of a hook in the order of the chain
HookRank(hook) ==
    CASE hook = "Stats" -> 1
      [] hook = "RateLimit" -> 2
      [] hook = "RequestsCompletion" -> 3
      [] hook = "DurationCompletion" -> 4
      [] OTHER -> 0

\* C26: the hook chain of every connection starts with the StatsCollector,
\* holds a RateLimit iff a limiter is configured, a RequestsCompletion iff
\* the condition is a request count, a DurationCompletion iff the condition
\* is a duration and the connection has index 0 in its worker, and holds
\* them in this order, each once and nothing else; timers and tokens exist
\* only where the chain has their hook.
C26_HookChain ==
    \A c \in Conns :
        LET ch == Chain(c) IN
        /\ Len(ch) >= 1 /\ ch[1] = "Stats"
        /\ \A k \in 1..Len(ch) : HookRank(ch[k]) # 0
        /\ \A j, k \in 1..Len(ch) : j < k => HookRank(ch[j]) < HookRank(ch[k])
        /\ (\E k \in 1..Len(ch) : ch[k] = "RateLimit") <=> cfg.rate_limit
        /\ (\E k \in 1..Len(ch) : ch[k] = "RequestsCompletion")
               <=> cfg.mode = "NumRequests"
        /\ (\E k \in 1..Len(ch) : ch[k] = "DurationCompletion")
               <=> (cfg.mode = "Duration" /\ c[2] = 0)
        /\ \A k \in 1..Len(log[c]) : log[c][k][2] <= Len(ch)
        /\ (c[2] = 0 /\ timers_started[c[1]] > 0) => ch[Len(ch)] = "DurationCompletion"
        /\ tokens > 0 => ch[2] = "RateLimit"

C26_Witness ==
    /\ cfg.mode = "Duration" /\ cfg.rate_limit
    /\ Chain(<<0, 0>>) = <<"Stats", "RateLimit", "DurationCompletion">>
    /\ Chain(<<0, 1>>) = <<"Stats", "RateLimit">>
    /\ timer[0] = "armed" /\ tokens = 2
    /\ pc[<<0, 0>>] = "send" /\ pc[<<0, 1>>] = "send"
    /\ Len(log[<<0, 0>>]) > Len(log[<<0, 1>>])


\* C27: with either engine, a target URL without a port makes every
\* connection connect to port 80, and no connection and no worker fails for
\* the lack of a port: the run ends with exit code 0.
C27_DefaultPort ==
    LET uri == UriParse(launch.args.url) IN
    (ConfigOk(launch.args) /\ uri.ok /\ uri.port = Unset) =>
        /\ \A c \in LaunchConns(launch.args) :
               /\ launch.pc[c] \notin {"failed", "aborted"}
               /\ launch.pc[c] \in {"connected", "done"} => launch.port[c] = 80
        /\ \A w \in LaunchWorkers(launch.args) : launch.worker[w] # "err"
        /\ launch.at = "exit" => launch.exit_code = 0

\* C28: with fewer connections than threads, or with a target URL that does
\* not parse, no TCP connection is opened and no request is sent, and the
\* run comes to its exit, with a non-zero exit code.
C28_ConfigurationFatal ==
    (~ConfigOk(launch.args) \/ ~UriParse(launch.args.url).ok) =>
        /\ \A c \in LaunchConns(launch.args) :
               /\ launch.pc[c] = "none"
               /\ launch.port[c] = Unset
               /\ launch.sent[c] = 0
        /\ launch.at = "exit" => launch.exit_code = 1
        /\ launch.at # "exit" => ENABLED LaunchNext

C28_Witness ==
    /\ launch.at = "exit" /\ launch.exit_code = 1
    /\ launch.args.threads = 2 /\ launch.args.connections = 3
    /\ ~UriParse(launch.args.url).ok
    /\ \A w \in LaunchWorkers(launch.args) : launch.worker[w] = "err"


\* the quotas of the connections of worker w, added up
QuotasOf(w) ==
    SumOver(DOMAIN conditions.conns[w],
            [i \in DOMAIN conditions.conns[w] |-> conditions.conns[w][i].n])

\* C29: a request count R dealt out to T workers and then to the C >= T
\* connections gives every connection a request-count quota, the quotas of
\* all connections add up to R and two quotas within one worker differ by
\* at most 1; a duration reaches every worker and every connection as it
\* was given.
C29_ConditionsDealtOut ==
    LET a == conditions.args
        W == 0..(a.threads - 1)
    IN conditions.called =>
        /\ DOMAIN conditions.conns = W
        /\ SumOver(W, [w \in W |-> Cardinality(DOMAIN conditions.conns[w])])
               = a.connections
        /\ \A w \in W : conditions.conns[w] # <<>>
        /\ a.completion.kind = "NumRequests" =>
               /\ SumOver(W, [w \in W |-> QuotasOf(w)]) = a.completion.n
               /\ \A w \in W : \A i, j \in DOMAIN conditions.conns[w] :
                      /\ conditions.conns[w][i].kind = "NumRequests"
                      /\ conditions.conns[w][i].n - conditions.conns[w][j].n <= 1
        /\ a.completion.kind = "Duration" =>
               \A w \in W :
                   /\ conditions.workers[w] = a.completion
                   /\ \A i \in DOMAIN conditions.conns[w] :
                          conditions.conns[w][i] = a.completion

C29_Witness ==
    /\ conditions.called
    /\ conditions.args = [threads |-> 2, connections |-> 5,
                          completion |-> [kind |-> "NumRequests", n |-> 9]]
    /\ conditions.conns[0][0].n = 2 /\ conditions.conns[0][1].n = 2
    /\ conditions.conns[0][2].n = 1
    /\ conditions.conns[1][0].n = 2 /\ conditions.conns[1][1].n = 2


InLoop(p) == p \in {"loop", "checked", "send"}

\* C30: every connection calls engine.setup() once, before it passes the
\* barrier, and never again; and a connection that leaves its request loop,
\* by the run flag, by its quota or by an error of the engine or of the
\* transport in an iteration, has called engine.cleanup() exactly once.
C30_SetupAndCleanupOnce ==
    /\ [](\A c \in Conns :
            /\ engine_calls[c].setup <= 1 /\ engine_calls[c].cleanup <= 1
            /\ (pc[c] = "barrier" \/ InLoop(pc[c]) \/ pc[c] = "done") =>
                   engine_calls[c].setup = 1
            /\ engine_calls[c].cleanup = 1 => pc[c] = "done")
    /\ [][\A c \in Conns :
            (InLoop(pc[c]) /\ pc'[c] \in {"done", "failed"}) =>
                engine_calls'[c].cleanup = 1]_vars


\* the offsets a supplier can be at: o, o + cls, o + 2 cls, ... modulo n
Orbit(o, cls, n) == {(o + k * cls) % n : k \in 0..(n - 1)}

Range(f) == {f[x] : x \in DOMAIN f}

\* C31: after with_checksums the cache holds, for every requested algorithm,
\* a digest for every offset the supplier can be at, the starting offset
\* included; the warming loop ran once per such offset and once more to
\* find the cache full, for each algorithm; and a later call of
\* new_stream_with_checksum with a warmed algorithm computes no digest.
C31_WarmCache ==
    /\ [](LET sup == supplier.sup
              offsets == Orbit(supplier.starting_offset,
                               supplier.cache_line_size, Len(sup.buf))
          IN /\ sup.offset \in offsets
             /\ \A c \in Range(supplier.checksums) : \A o \in offsets :
                    StreamCacheKey(c, o, sup.len) \in DOMAIN sup.checksum_cache
             /\ sup.warm_loops
                    = Len(supplier.checksums) * (Cardinality(offsets) + 1))
    /\ [][(supplier'.digests > supplier.digests
           /\ supplier'.last.key.checksum \in Range(supplier.checksums)) =>
              supplier'.sup.computed = supplier.sup.computed]_vars

C31_Witness ==
    /\ Len(supplier.sup.buf) = 4 /\ supplier.cache_line_size = 3
    /\ supplier.starting_offset = 1
    /\ supplier.checksums = <<"Md5", "Crc32c">>
    /\ supplier.digests = 4
    /\ Len(supplier.sup.computed) = 8
    /\ supplier.sup.warm_loops = 10
    /\ supplier.last.key.checksum = "Crc32c"

\* C33: every call of new_stream and of new_stream_with_checksum returns a
\* stream that starts at the offset the supplier had before the call and
\* gives len bytes, and moves the offset to (offset + cache_line_size) mod
\* |buf|, the same for both; the offset stays below |buf|; the buffer, len
\* and the digests already in the cache stay as they were.
C33_SupplierAdvances ==
    /\ [](supplier.sup.offset < Len(supplier.sup.buf))
    /\ [][supplier'.calls = supplier.calls + 1 =>
            /\ supplier'.returned.idx = supplier.sup.offset
            /\ supplier'.returned.inner = supplier.sup.buf
            /\ supplier'.returned.num_to_read = supplier.sup.len
            /\ supplier'.returned.num_read = 0
            /\ supplier'.sup.offset
                   = (supplier.sup.offset + supplier.cache_line_size)
                         % Len(supplier.sup.buf)
            /\ supplier'.sup.buf = supplier.sup.buf
            /\ supplier'.sup.len = supplier.sup.len
            /\ \A k \in DOMAIN supplier.sup.checksum_cache :
                   /\ k \in DOMAIN supplier'.sup.checksum_cache
                   /\ supplier'.sup.checksum_cache[k]
                          = supplier.sup.checksum_cache[k]]_vars

C33_Witness ==
    /\ Len(supplier.sup.buf) = 4 /\ supplier.cache_line_size = 3
    /\ supplier.starting_offset = 3 /\ supplier.sup.len = 3
    /\ supplier.calls = 3 /\ supplier.digests = 1
    /\ supplier.returned.idx = 1
    /\ supplier.sup.offset = 0
    /\ supplier.checksums = <<>>
    /\ Len(supplier.sup.computed) = 1


\* C32: a stream over a non-empty buffer ends after finitely many polls:
\* no frame is longer than CHUNK_SIZE, num_read never exceeds num_to_read,
\* idx stays within 0..|buffer|, at most two frames are needed per byte read,
\* a stream that is not at its end gives a frame when polled, and once
\* num_read = num_to_read every poll gives the end of the stream and no data.
C32_StreamEnds ==
    /\ [](/\ \A i \in DOMAIN stream.sizes : stream.sizes[i] <= stream.CHUNK_SIZE
          /\ stream.s.num_read <= stream.s.num_to_read
          /\ stream.s.idx \in 0..Len(stream.s.inner)
          /\ stream.frames <= 2 * stream.s.num_read
          /\ stream.polls = stream.frames + stream.nones
          /\ stream.nones > 0 => stream.s.num_read = stream.s.num_to_read)
    /\ [][stream'.polls = stream.polls + 1 =>
            IF stream.s.num_read = stream.s.num_to_read
            THEN /\ stream'.nones = stream.nones + 1
                 /\ stream'.out = stream.out
                 /\ stream'.frames = stream.frames
                 /\ stream'.s = stream.s
            ELSE stream'.frames = stream.frames + 1]_vars

C32_Witness ==
    /\ stream.nones = 2
    /\ Len(stream.s.inner) = 3 /\ stream.starting_offset = 2
    /\ stream.CHUNK_SIZE = 2
    /\ stream.sizes = <<1, 2, 1, 2, 1>>
    /\ stream.s.idx = 3

\* C39: every data frame a stream emits holds at least one byte.
C39_NoEmptyFrame ==
    \A i \in DOMAIN stream.sizes : stream.sizes[i] >= 1


\* C40: the delta of a counter of width w between two ticks is
\* (curr - prev) mod 2^w, also when the counter wrapped and curr < prev.
C40_DeltaModular ==
    delta.called => delta.out = (delta.curr - delta.prev) % (UsizeMax + 1)


C38_BarrierReleases ==
    (\E c \in Conns : pc[c] = "barrier" /\ engine_calls[c].setup = 1
                      /\ wres[c[1]] = "running")
        => ENABLED Next


\* C37: every sample the runner takes of a worker's instant_stats is the
\* value the counters had after a whole number of after_response updates
\* (the one in place when the read guard was taken), so with a fixed
\* declared request size L a sample has bytes_written = L * requests_issued,
\* while the worker's connections keep updating the counters.
C37_ConsistentSample ==
    (sampled.rpc = "idle" /\ sampled.samples > 0) =>
        /\ sampled.b = sampled.at_acquire
        /\ sampled.b.bytes_written = sampled.req_size * sampled.b.requests_issued

C37_Witness ==
    /\ sampled.samples = 2 /\ sampled.rpc = "idle"
    /\ sampled.b.requests_issued = 2 /\ sampled.b.bytes_read = 3
    /\ sampled.req_size = 2
    /\ sampled.updates = 3
    /\ \E i \in 1..SampledConns : sampled.wpc[i] = "bytes_written"


\* the machine of a pattern over a fresh provider after k calls of next()
RECURSIVE NthMachine(_, _, _)
NthMachine(pattern, new, k) ==
    IF k = 0
    THEN TrafficStateMachineNew(pattern,
             UriProviderNew(new.depth, new.num_objs, new.num_branch_per_depth))
    ELSE TrafficCopNext(NthMachine(pattern, new, k - 1)).machine

\* the k-th state of the traffic sequence, counted from 1
NthState(pattern, new, k) == NthMachine(pattern, new, k - 1).state

\* the PUTs among the first k requests
PutsIn(requests, k) ==
    Cardinality({j \in 1..k : requests[j].req.method = "PUT"})

ChecksumHeaders == {"Content-MD5", "x-amz-checksum-crc32c"}

\* C34: every call of S3Engine::request advances the traffic state machine
\* once and builds the request from the state returned: the n-th request
\* carries the method and URI of the n-th state of the traffic sequence; a
\* PUT has declared size object_size and as body the one stream the
\* supplier gave for it, starting where the PUTs before it left the offset,
\* with the checksum header of the configured algorithm and the digest of
\* that stream, or no checksum header if none is configured; a GET has
\* declared size 0 and an empty body and leaves the supplier as it was.
C34_RequestFollowsTraffic ==
    /\ [](LET e == s3.engine
              sup == e.stream_supplier
              n == Len(sup.buf)
          IN /\ e.traffic_cop
                    = NthMachine(s3.pattern, s3.new, Len(s3.requests))
             /\ sup.offset
                    = (PutsIn(s3.requests, Len(s3.requests)) * s3.cache_line_size) % n
             /\ \A k \in 1..Len(s3.requests) :
                 LET r == s3.requests[k]
                     st == NthState(s3.pattern, s3.new, k)
                     o == (PutsIn(s3.requests, k - 1) * s3.cache_line_size) % n
                     sums == {h \in r.req.headers : h[1] \in ChecksumHeaders}
                 IN /\ r.req.uri = st.uri
                    /\ r.req.method = (IF st.kind = "Put" THEN "PUT" ELSE "GET")
                    /\ st.kind = "Put" =>
                        /\ r.size = e.object_size
                        /\ <<"Content-Length", e.object_size>> \in r.req.headers
                        /\ r.req.body
                               = PerpetualByteStreamNew(sup.buf, o, e.object_size)
                        /\ sums = IF e.checksum_algo = <<>> THEN {}
                                  ELSE {<<ChecksumHeader(e.checksum_algo[1]),
                                          <<e.checksum_algo[1],
                                            HasherUpdate(e.checksum_algo[1],
                                                HasherNew(e.checksum_algo[1]),
                                                StreamBytes(sup.buf, o,
                                                            e.object_size))>>>>}
                    /\ st.kind = "Get" =>
                        /\ r.size = 0
                        /\ r.req.body.num_to_read = 0
                        /\ sums = {})
    /\ [][Len(s3'.requests) = Len(s3.requests) + 1 =>
            /\ s3'.engine.traffic_cop
                   = TrafficCopNext(s3.engine.traffic_cop).machine
            /\ s3'.engine.last_traffic_state
                   = Some(s3.engine.traffic_cop.state)
            /\ s3.engine.traffic_cop.state.kind = "Get" =>
                   s3'.engine.stream_supplier = s3.engine.stream_supplier]_vars

C34_Witness ==
    /\ s3.pattern = "Both" /\ Len(s3.requests) = 4
    /\ s3.engine.checksum_algo = <<"Crc32c">>
    /\ Len(s3.engine.stream_supplier.buf) = 4 /\ s3.cache_line_size = 3
    /\ s3.engine.object_size = 3
    /\ s3.engine.stream_supplier.offset = 2
    /\ s3.requests[3].req.method = "PUT" /\ s3.requests[3].req.body.idx = 3
    /\ s3.requests[4].req.method = "GET"
    /\ s3.requests[4].req.uri = s3.requests[3].req.uri
    /\ s3.requests[3].req.uri # s3.requests[1].req.uri

====
